---- MODULE Spec2Model ----
(***************************************************************************)
(* A model of the kernel/server bookkeeping of the Jupyter extension:      *)
(*   - JupyterServerUriStorage and MigrateOldMRU                           *)
(*     (src/kernels/jupyter/connection/serverUriStorage.ts)                *)
(*   - KernelProvider / ThirdPartyKernelProvider.getOrCreate               *)
(*     (kernels/kernelProvider.node.ts, kernelProvider.web.ts)             *)
(*   - RawJupyterSession: connect, restart, shutdown, process exit         *)
(*     (src/kernels/raw/session/rawJupyterSession.node.ts)                 *)
(*   - OldJupyterSession.createNewKernelSession and JupyterSessionWrapper  *)
(*     (src/kernels/jupyter/session/jupyterSession.ts)                     *)
(*   - RemoteKernelControllerWatcher and the tests of                      *)
(*     RemoteKernelConnectionHandler                                       *)
(*     (src/notebooks/controllers/remoteKernelControllerWatcher.ts)        *)
(* Every asynchronous method is cut at its I/O awaits: one action per      *)
(* completion of an awaited I/O, the synchronous code that follows it      *)
(* included.  Several calls may be in flight at once, as they are when     *)
(* RemoteKernelControllerWatcher runs its adds and removes in Promise.all. *)
(***************************************************************************)
EXTENDS Integers, Sequences, FiniteSets, TLC

\* ------------------------------------------------------------------ bounds
\* serverUriStorage.ts:21
MAX_MRU_COUNT == 10
\* server handles known to the model are Handle(1) .. Handle(NumHandles)
NumHandles == 12
\* storage calls invoked in one behaviour
MaxOps == 2
\* Date.now() advances at most this often
MaxTicks == 1
\* Kernel objects constructed in one behaviour
MaxKernels == 3

Calls == {"c1", "c2"}

\* The handles whose provider is gone: the registry rejects getJupyterServerUri.
StaleHandleIds == {1}
\* The handles the callers pass: the stale one (stored first in every stored list),
\* the one stored at index MAX_MRU_COUNT - 1 of a full old list (and in no shorter
\* list), and one that no initial list holds.
ArgHandleIds == {MAX_MRU_COUNT, NumHandles} \cup StaleHandleIds

\* ------------------------------------------------------------------ data
\* The provider ids of the handles: the provider of the stale handle is gone
\* (the registry rejects), one id is registered by no provider, one provider has
\* no removeHandle, the others implement it.
ProviderIdOf(n) ==
    CASE n \in StaleHandleIds -> "gone"
      [] n = 2 -> "unknown"
      [] n = 3 -> "plain"
      [] OTHER -> "provider"
Handle(n) == [extensionId |-> "ext", id |-> ProviderIdOf(n), handle |-> n]

\* IJupyterUriProviderRegistration.getProvider(id): rejects, or resolves to
\* undefined, to a provider without removeHandle or to one with it.
getProvider(id) ==
    CASE id = "gone" -> "rejects"
      [] id = "unknown" -> "undefined"
      [] id = "plain" -> "plain"
      [] OTHER -> "removable"

\* jupyterUtils.jupyterServerHandleToString: the string form of the triple.
jupyterServerHandleToString(h) == <<h.extensionId, h.id, h.handle>>

\* IJupyterUriProviderRegistration.getJupyterServerUri: resolves or rejects.
RegistryResolves(h) == h.handle \notin StaleHandleIds
RegistryDisplayName(h) == "server"

StorageMRUItem(h, t, name) == [displayName |-> name, time |-> t, serverHandle |-> h]
IJupyterServerUriEntry(h, t, name, valid) ==
    [serverHandle |-> h, time |-> t, displayName |-> name, isValidated |-> valid]

Min(a, b) == IF a < b THEN a ELSE b
Range(s) == {s[i] : i \in DOMAIN s}
HandlesOf(s) == {jupyterServerHandleToString(s[i].serverHandle) : i \in DOMAIN s}
\* Array.prototype.slice(from) and slice(0, to) on a 0-based array
SliceTo(s, to) == SubSeq(s, 1, Min(to, Len(s)))
SliceFrom(s, from) == SubSeq(s, from + 1, Len(s))

\* The list a previous session of the extension left in the storage file: written
\* by add, so in the order of insertion.
StoredList(n) == [i \in 1..n |-> StorageMRUItem(Handle(i), i, RegistryDisplayName(Handle(i)))]
\* The old-format list (memento indexes + encrypted blob).
OldList(n) ==
    [i \in 1..n |-> [kind |-> "handle", serverHandle |-> Handle(i), time |-> i, displayName |-> "old"]]

\* What old versions left in the old list besides server URIs: the 'local'
\* marker and a URI that jupyterServerHandleFromString cannot parse, stored
\* after n URIs; their serverHandle is never read.
OldJunk(n) ==
    << [kind |-> "local", serverHandle |-> Handle(0), time |-> n + 1, displayName |-> "old"],
       [kind |-> "unparsable", serverHandle |-> Handle(0), time |-> n + 2, displayName |-> "old"] >>

\* <<the storage file exists, entries in it, entries in the old format, the old
\*   list ends with the 'local' marker and an unparsable URI>>
InitialStores ==
    { <<FALSE, 0, 0, FALSE>>, <<FALSE, 0, MAX_MRU_COUNT, FALSE>>,
      <<FALSE, 0, MAX_MRU_COUNT + 1, FALSE>>, <<TRUE, MAX_MRU_COUNT - 1, 2, FALSE>>,
      <<FALSE, 0, 0, TRUE>>, <<FALSE, 0, 2, TRUE>> }

VARIABLES
    fileExists,   \* fs.exists(storageFile)
    file,         \* JSON content of remoteServersMRUList.json: Seq of StorageMRUItem
    oldList,      \* old format: globalMemento list + encrypted blob
    mig,          \* MigrateOldMRU: the migration promise and where it stands
    migRuns,      \* number of times migrateMRUImpl was entered
    calls,        \* the storage calls in flight, by slot
    started,      \* number of calls invoked so far
    now,          \* Date.now()
    kernels,      \* per provider, the map notebook/URI -> {kernel, options}
    kernelObjs,   \* every Kernel constructed so far, by number
    ret,          \* the last call of getOrCreate and what it returned (turn flips at each call)
    this,         \* RawJupyterSession: its private fields
    rawSessions,  \* every RawSession started so far with its kernel process, by number
    connectCall,  \* RawJupyterSession.connect(): the call and its cancellation token
    restartCalls, \* RawJupyterSession.restart(): the calls in flight, by slot
    shutdownCalls, \* RawJupyterSession.shutdown()/dispose(): the calls in flight, by slot
    createCall,   \* OldJupyterSession.createNewKernelSession: the call, its token, its outcome
    wrapper,      \* JupyterSessionWrapper: its fields and the session it wraps
    wrapperCalls, \* JupyterSessionWrapper.shutdown()/dispose(): the calls in flight, by slot
    probe,        \* postStartRawSession: the kernel-info probe of one session start
    suite,        \* the test of suite 'Remote kernel connection handler' that runs
    removals,     \* the runs of removeHandles started by onDidRemove events, in order
    watcher       \* RemoteKernelControllerWatcher, the providers it watches, its runs

storageVars == <<fileExists, file, oldList, mig, migRuns, calls, started, now>>
providerVars == <<kernels, kernelObjs, ret>>
rawVars == <<this, rawSessions, connectCall, restartCalls, shutdownCalls>>
jupyterVars == <<createCall, wrapper, wrapperCalls>>
restVars == <<suite, removals, watcher>>
sessionVars == <<rawVars, jupyterVars, probe, restVars>>
vars == <<fileExists, file, oldList, mig, migRuns, calls, started, now,
          kernels, kernelObjs, ret,
          this, rawSessions, connectCall, restartCalls, shutdownCalls,
          createCall, wrapper, wrapperCalls, probe, suite, removals, watcher>>

InitNow == NumHandles

IdleCall ==
    [op |-> "none", h |-> Handle(1), pc |-> "idle", no |-> 0, alone |-> TRUE,
     before |-> <<>>, uriList |-> <<>>, items |-> <<>>, time |-> 0, wrote |-> FALSE,
     readAfterMigration |-> TRUE, fired |-> <<>>, result |-> "none", ret |-> <<>>]

StorageInit ==
    /\ \E s \in InitialStores :
        /\ fileExists = s[1]
        /\ file = StoredList(s[2])
        /\ oldList = OldList(s[3]) \o (IF s[4] THEN OldJunk(s[3]) ELSE <<>>)
    /\ mig = [pc |-> "none", items |-> <<>>]
    /\ migRuns = 0
    /\ calls = [c \in Calls |-> IdleCall]
    /\ started = 0
    /\ now = InitNow
    /\ removals = <<>>

\* ------------------------------------------------------------ MigrateOldMRU
\* Mutant of MigrationNotStarted: the guard asks whether the migration has
\* finished instead of whether it was started.
MigrationNotStarted_NotFinished == mig.pc # "done"

\* MigrateOldMRU.migrateMRU: `if (!this.migration)`
MigrationNotStarted == mig.pc = "none"

\* MigrateOldMRU.migrateMRU, called synchronously by whoever invokes an operation:
\* the first caller enters migrateMRUImpl, which runs up to `await fs.exists`.
migrateMRU ==
    IF MigrationNotStarted
    THEN /\ mig' = [pc |-> "exists", items |-> <<>>]
         /\ migRuns' = migRuns + 1
    ELSE UNCHANGED <<mig, migRuns>>

\* Mutant of getMRU: only the unparsable URIs are left out.
getMRU_KeepsLocal(old) ==
    LET kept == SelectSeq(old, LAMBDA e : e.kind # "unparsable")
    IN  [i \in DOMAIN kept |->
            IJupyterServerUriEntry(kept[i].serverHandle, kept[i].time, kept[i].displayName, FALSE)]

\* MigrateOldMRU.getMRU: the entries of the old list, 'local' and unparsable
\* URIs left out, as IJupyterServerUriEntry with isValidated false.
getMRU(old) ==
    LET kept == SelectSeq(old, LAMBDA e : e.kind = "handle")
    IN  [i \in DOMAIN kept |->
            IJupyterServerUriEntry(kept[i].serverHandle, kept[i].time, kept[i].displayName, FALSE)]

\* migrateMRUImpl, `if (await this.fs.exists(this.storageFile)) return;`
migrateMRUImpl_exists ==
    /\ mig.pc = "exists"
    /\ mig' = [mig EXCEPT !.pc = IF fileExists THEN "done" ELSE "getMRU"]
    /\ UNCHANGED <<fileExists, file, oldList, migRuns, calls, started, now>>
    /\ UNCHANGED <<providerVars, sessionVars>>

\* migrateMRUImpl, `const items = await this.getMRU(); if (items.length === 0) return;`
migrateMRUImpl_getMRU ==
    /\ mig.pc = "getMRU"
    /\ LET items == getMRU(oldList)
       IN  mig' = [pc |-> IF Len(items) = 0 THEN "done" ELSE "write", items |-> items]
    /\ UNCHANGED <<fileExists, file, oldList, migRuns, calls, started, now>>
    /\ UNCHANGED <<providerVars, sessionVars>>

\* migrateMRUImpl, the storage items it writes
MigratedItems(items) ==
    [i \in DOMAIN items |->
        StorageMRUItem(items[i].serverHandle, items[i].time, items[i].displayName)]

\* migrateMRUImpl, `await Promise.all([this.clear(), this.fs.writeFile(...)])`
migrateMRUImpl_write ==
    /\ mig.pc = "write"
    /\ file' = MigratedItems(mig.items)
    /\ fileExists' = TRUE
    /\ oldList' = <<>>
    /\ mig' = [mig EXCEPT !.pc = "done"]
    /\ UNCHANGED <<migRuns, calls, started, now>>
    /\ UNCHANGED <<providerVars, sessionVars>>

\* --------------------------------------------------- JupyterServerUriStorage
Active(c) == calls[c].pc \notin {"idle", "done"}

\* The slot a new call takes: the one whose call is over, the older one first.
FreeSlot ==
    CHOOSE c \in Calls : /\ ~Active(c)
                         /\ \A d \in Calls : ~Active(d) => calls[c].no <= calls[d].no

\* A caller invokes update/remove/getAll/clear/get/add: the synchronous part of
\* each is the call of migration.migrateMRU() (clear reaches it through getAll).
Invoke(c, op, h) ==
    /\ \E d \in Calls : ~Active(d)
    /\ c = FreeSlot
    /\ started < MaxOps
    /\ started' = started + 1
    /\ migrateMRU
    /\ calls' = [calls EXCEPT ![c] =
            [IdleCall EXCEPT !.op = op, !.h = h, !.pc = "migrate", !.no = started + 1,
                             !.alone = \A d \in Calls \ {c} : ~Active(d),
                             !.result = "pending"]]
    /\ UNCHANGED <<fileExists, file, oldList, now>>
    /\ UNCHANGED <<providerVars, sessionVars>>

\* getAll, from `if (await this.fs.exists(this.storageFile))` to its return
getAll ==
    IF ~fileExists THEN <<>>
    ELSE [i \in DOMAIN file |->
            IJupyterServerUriEntry(
                file[i].serverHandle, file[i].time,
                IF RegistryResolves(file[i].serverHandle)
                    THEN RegistryDisplayName(file[i].serverHandle)
                    ELSE file[i].displayName,
                RegistryResolves(file[i].serverHandle))]

AsStorageItems(list) ==
    [i \in DOMAIN list |->
        StorageMRUItem(list[i].serverHandle, list[i].time, list[i].displayName)]

\* add, `const storageItems = uriList.filter(...).map(...)` and `storageItems.push(...)`
addStorageItems(uriList, h, t, name) ==
    Append(
        AsStorageItems(SelectSeq(uriList, LAMBDA e :
            jupyterServerHandleToString(e.serverHandle) # jupyterServerHandleToString(h))),
        StorageMRUItem(h, t, name))

\* remove, `const newList = uriList.filter(...)`
removeNewList(uriList, h) ==
    AsStorageItems(SelectSeq(uriList, LAMBDA e :
        jupyterServerHandleToString(e.serverHandle) # jupyterServerHandleToString(h)))

\* Mutant of find: the first entry of the list, whatever its handle.
find_First(uriList, h) == SliceTo(uriList, 1)

\* remove/get, `uriList.find(...)`: the entries found (none or the first)
find(uriList, h) ==
    LET hits == SelectSeq(uriList, LAMBDA e :
            jupyterServerHandleToString(e.serverHandle) = jupyterServerHandleToString(h))
    IN  SliceTo(hits, 1)

\* updateStore, `items.slice(0, MAX_MRU_COUNT - 1)`
itemsToSave(items) == SliceTo(items, MAX_MRU_COUNT - 1)
\* updateStore, `items.slice(MAX_MRU_COUNT)`
itemsToRemove(items) == SliceFrom(items, MAX_MRU_COUNT)

Event(type, entries) == [type |-> type, entries |-> entries]

\* Mutant of add_getJupyterServerUri: a rejection of the registry is swallowed.
add_getJupyterServerUri_Swallowed(c) ==
    /\ calls[c].pc = "migrate"
    /\ calls[c].op \in {"add", "update"}
    /\ mig.pc = "done"
    /\ calls' = [calls EXCEPT ![c] = [@ EXCEPT !.pc = "getAll"]]
    /\ UNCHANGED <<fileExists, file, oldList, mig, migRuns, started, now>>
    /\ UNCHANGED <<providerVars, sessionVars>>

\* add, after `await this.migration.migrateMRU()`:
\* `const server = await this.jupyterPickerRegistration.getJupyterServerUri(serverHandle)`
add_getJupyterServerUri(c) ==
    /\ calls[c].pc = "migrate"
    /\ calls[c].op \in {"add", "update"}
    /\ mig.pc = "done"
    /\ calls' = [calls EXCEPT ![c] =
            IF RegistryResolves(calls[c].h)
            THEN [@ EXCEPT !.pc = "getAll"]
            ELSE [@ EXCEPT !.pc = "done", !.result = "rejected"]]
    /\ UNCHANGED <<fileExists, file, oldList, mig, migRuns, started, now>>
    /\ UNCHANGED <<providerVars, sessionVars>>

\* add, `let uriList = await this.getAll()` up to the call of updateStore; the
\* entry takes Date.now().
add_getAll(c) ==
    /\ calls[c].pc = "getAll"
    /\ \E t \in now..Min(now + 1, InitNow + MaxTicks) :
        /\ now' = t
        /\ calls' = [calls EXCEPT ![c] =
              [@ EXCEPT !.pc = "write", !.before = file, !.uriList = getAll, !.time = t,
                        !.readAfterMigration = (mig.pc = "done"),
                        !.items = addStorageItems(getAll, calls[c].h, t,
                                                  RegistryDisplayName(calls[c].h))]]
    /\ UNCHANGED <<fileExists, file, oldList, mig, migRuns, started>>
    /\ UNCHANGED <<providerVars, sessionVars>>

\* remove/get/getAll/clear, after `await this.migration.migrateMRU()`: the list
\* is read, and what each does with it up to its next await
read(c) ==
    /\ calls[c].pc = "migrate"
    /\ calls[c].op \in {"remove", "get", "getAll", "clear"}
    /\ mig.pc = "done"
    /\ LET list == getAll
           op == calls[c].op
           found == find(list, calls[c].h)
           r == [calls[c] EXCEPT !.before = file, !.uriList = list,
                                 !.readAfterMigration = (mig.pc = "done")]
       IN  calls' = [calls EXCEPT ![c] =
              CASE op = "remove" /\ Len(found) > 0 ->
                        [r EXCEPT !.pc = "write", !.items = removeNewList(list, calls[c].h)]
                [] op = "remove" /\ Len(found) = 0 ->
                        [r EXCEPT !.pc = "done", !.result = "ok"]
                [] op = "get" -> [r EXCEPT !.pc = "done", !.result = "ok", !.ret = found]
                [] op = "getAll" -> [r EXCEPT !.pc = "done", !.result = "ok", !.ret = list]
                [] op = "clear" -> [r EXCEPT !.pc = "write", !.items = <<>>]]
    /\ UNCHANGED <<fileExists, file, oldList, mig, migRuns, started, now>>
    /\ UNCHANGED <<providerVars, sessionVars>>

\* updateStore, up to `await this.fs.writeFile(this.storageFile, JSON.stringify(itemsToSave))`
updateStore_writeFile(c) ==
    /\ calls[c].pc = "write"
    /\ file' = itemsToSave(calls[c].items)
    /\ fileExists' = TRUE
    /\ calls' = [calls EXCEPT ![c] = [@ EXCEPT !.pc = "fire", !.wrote = TRUE]]
    /\ UNCHANGED <<oldList, mig, migRuns, started, now>>
    /\ UNCHANGED <<providerVars, sessionVars>>

\* updateStore, `this._onDidRemoveUris.fire(itemsToRemove.map(...))`
updateStoreEvents(items) ==
    LET gone == itemsToRemove(items)
    IN  << Event("remove", [i \in DOMAIN gone |->
                IJupyterServerUriEntry(gone[i].serverHandle, gone[i].time,
                                       gone[i].displayName, FALSE)]) >>

\* Mutant of addEvents: onDidAdd fired before onDidChange, its entry not validated.
addEvents_AddFirst(h, t, name) ==
    << Event("add", <<IJupyterServerUriEntry(h, t, name, FALSE)>>), Event("change", <<>>) >>

\* add, the events after `await this.updateStore(storageItems)`
addEvents(h, t, name) ==
    << Event("change", <<>>), Event("add", <<IJupyterServerUriEntry(h, t, name, TRUE)>>) >>

\* Mutant of clearEvents: the entries still stored after the write are reported.
clearEvents_OfNewList(uriList) ==
    << Event("remove", <<>>), Event("change", <<>>) >>

\* clear, `this._onDidRemoveUris.fire(uriList); this._onDidChangeUri.fire();`
clearEvents(uriList) ==
    << Event("remove", uriList), Event("change", <<>>) >>

\* the events each operation fires once updateStore has returned
operationEvents(call) ==
    CASE call.op = "add" ->
            addEvents(call.h, call.time, RegistryDisplayName(call.h))
      [] call.op = "update" ->
            addEvents(call.h, call.time, RegistryDisplayName(call.h))
                \o << Event("change", <<>>) >>
      [] call.op = "remove" ->
            << Event("remove", find(call.uriList, call.h)), Event("change", <<>>) >>
      [] call.op = "clear" -> clearEvents(call.uriList)

\* removeHandles, entered with the handles of one event: it runs up to its first
\* `await this.jupyterPickerRegistration.getProvider(handle.id)`
removeHandles(serverHandles) ==
    [handles |-> serverHandles, i |-> 1, pc |-> "getProvider", asked |-> <<>>]

\* the listener the constructor adds to _onDidRemoveUris: one run of
\* removeHandles per event, `e.map((item) => item.serverHandle)`; the loop of a
\* run over no handle ends at once
onDidRemove_listener(events) ==
    LET hit == SelectSeq(events, LAMBDA e : e.type = "remove" /\ e.entries # <<>>)
    IN  [k \in DOMAIN hit |->
            removeHandles([j \in DOMAIN hit[k].entries |-> hit[k].entries[j].serverHandle])]

\* the continuation of updateStore after the write, and of its caller after it
fire(c) ==
    /\ calls[c].pc = "fire"
    /\ LET events == updateStoreEvents(calls[c].items) \o operationEvents(calls[c])
       IN  /\ calls' = [calls EXCEPT ![c] =
                  [@ EXCEPT !.pc = "done", !.result = "ok", !.fired = events]]
           /\ removals' = removals \o onDidRemove_listener(events)
    /\ UNCHANGED <<fileExists, file, oldList, mig, migRuns, started, now>>
    /\ UNCHANGED <<providerVars, rawVars, jupyterVars, probe, suite, watcher>>

\* removeHandles, the `for` loop goes on to the next handle or ends
removeHandles_next(run) ==
    IF run.i < Len(run.handles)
    THEN [run EXCEPT !.i = @ + 1, !.pc = "getProvider"]
    ELSE [run EXCEPT !.i = @ + 1, !.pc = "done"]

\* Mutant of removeHandles_catch: the exception leaves the loop.
removeHandles_catch_Rethrows(run) ==
    [run EXCEPT !.pc = "done"]

\* removeHandles, `catch (ex) { traceWarning(...) }` inside the loop
removeHandles_catch(run) ==
    removeHandles_next(run)

\* removeHandles, `await getProvider(handle.id)` settles; with a provider that
\* has removeHandle, provider.removeHandle(handle.handle) is called
removeHandles_getProvider(r) ==
    /\ r \in DOMAIN removals
    /\ removals[r].pc = "getProvider"
    /\ LET run == removals[r]
           handle == run.handles[run.i]
           provider == getProvider(handle.id)
       IN  removals' = [removals EXCEPT ![r] =
              CASE provider = "rejects" -> removeHandles_catch(run)
                [] provider = "removable" ->
                        [run EXCEPT !.pc = "removeHandle", !.asked = Append(@, handle)]
                [] OTHER -> removeHandles_next(run)]
    /\ UNCHANGED <<storageVars, providerVars, rawVars, jupyterVars, probe, suite, watcher>>

\* removeHandles, `await provider.removeHandle(handle.handle)` settles
removeHandles_removeHandle(r, outcome) ==
    /\ r \in DOMAIN removals
    /\ removals[r].pc = "removeHandle"
    /\ removals' = [removals EXCEPT ![r] =
            IF outcome = "rejects" THEN removeHandles_catch(@) ELSE removeHandles_next(@)]
    /\ UNCHANGED <<storageVars, providerVars, rawVars, jupyterVars, probe, suite, watcher>>

StorageNext ==
    \/ \E c \in Calls, op \in {"add", "update", "remove", "get"}, n \in ArgHandleIds :
            Invoke(c, op, Handle(n))
    \/ \E c \in Calls, op \in {"getAll", "clear"} : Invoke(c, op, Handle(1))
    \/ migrateMRUImpl_exists
    \/ migrateMRUImpl_getMRU
    \/ migrateMRUImpl_write
    \/ \E c \in Calls : add_getJupyterServerUri(c)
    \/ \E c \in Calls : add_getAll(c)
    \/ \E c \in Calls : read(c)
    \/ \E c \in Calls : updateStore_writeFile(c)
    \/ \E c \in Calls : fire(c)

\* the runs of removeHandles an operation can start: updateStore's event and its own
MaxRemovals == 2 * MaxOps

RemovalNext ==
    \/ StorageNext
    \/ \E r \in 1..MaxRemovals : removeHandles_getProvider(r)
    \/ \E r \in 1..MaxRemovals, outcome \in {"resolves", "rejects"} :
            removeHandles_removeHandle(r, outcome)

\* ------------------------------------------------------------ KernelProvider
\* One provider, KernelProvider or ThirdPartyKernelProvider: their getOrCreate
\* differ in how the Kernel is constructed, not in what is looked up, disposed
\* and stored.
\* notebooks (KernelProvider) or URIs (ThirdPartyKernelProvider)
Keys == {"nb1", "nb2"}
\* KernelConnectionMetadata.id
MetadataIds == {"python3", "remote"}

\* no entry in the map (Map.get returns undefined)
NoKernel == [kernel |-> 0, metadataId |-> "none"]

ProviderInit ==
    /\ kernels = [k \in Keys |-> NoKernel]
    /\ kernelObjs = <<>>
    /\ ret = [turn |-> 0, kernel |-> 0, existing |-> FALSE]

\* BaseCoreKernelProvider.getInternal: the entry stored for the notebook/URI
getInternal(k) == kernels[k]

\* Mutant of ExistingKernelMatches: the comparison of the ids inverted.
ExistingKernelMatches_Inverted(existingKernelInfo, metadataId) ==
    /\ existingKernelInfo # NoKernel
    /\ existingKernelInfo.metadataId # metadataId

\* getOrCreate, `existingKernelInfo && existingKernelInfo.options.metadata.id === options.metadata.id`
ExistingKernelMatches(existingKernelInfo, metadataId) ==
    /\ existingKernelInfo # NoKernel
    /\ existingKernelInfo.metadataId = metadataId

\* kernelProvider.base disposeOldKernel: the stored kernel is disposed (its
\* onDisposed fires later); its entry is deleted, and set anew by storeKernel.
\* The kernel remembers that it was replaced.
disposeOldKernel(objs, k) ==
    IF kernels[k] = NoKernel THEN objs
    ELSE [objs EXCEPT ![kernels[k].kernel] =
                [@ EXCEPT !.status = IF @ = "alive" THEN "disposing" ELSE @,
                          !.replaced = TRUE]]

\* Mutant of getOrCreate_disposeOldKernel: the stored kernel is left running.
getOrCreate_disposeOldKernel_Skipped(objs, k) == objs

\* getOrCreate, `this.disposeOldKernel(notebook)` before the Kernel is constructed
getOrCreate_disposeOldKernel(objs, k) == disposeOldKernel(objs, k)

\* Mutant of getOrCreate_deleteMappingIfKernelIsDisposed: no listener is registered.
getOrCreate_deleteMappingIfKernelIsDisposed_Skipped(kernel) == kernel

\* getOrCreate, `this.deleteMappingIfKernelIsDisposed(kernel)` after storeKernel:
\* the listener of kernel.onDisposed is registered
getOrCreate_deleteMappingIfKernelIsDisposed(kernel) == [kernel EXCEPT !.listener = TRUE]

\* getOrCreate of KernelProvider and of ThirdPartyKernelProvider
getOrCreate(k, m) ==
    /\ LET existingKernelInfo == getInternal(k)
       IN  IF ExistingKernelMatches(existingKernelInfo, m)
           THEN /\ ret' = [turn |-> 1 - ret.turn, kernel |-> existingKernelInfo.kernel,
                           existing |-> TRUE]
                /\ UNCHANGED <<kernels, kernelObjs>>
           ELSE /\ Len(kernelObjs) < MaxKernels
                /\ LET kernel == Len(kernelObjs) + 1
                   IN  /\ kernelObjs' = Append(getOrCreate_disposeOldKernel(kernelObjs, k),
                              getOrCreate_deleteMappingIfKernelIsDisposed(
                                  [key |-> k, status |-> "alive", listener |-> FALSE,
                                   replaced |-> FALSE]))
                       \* storeKernel
                       /\ kernels' = [kernels EXCEPT ![k] =
                              [kernel |-> kernel, metadataId |-> m]]
                       /\ ret' = [turn |-> 1 - ret.turn, kernel |-> kernel,
                                  existing |-> FALSE]
    /\ UNCHANGED <<storageVars, sessionVars>>

\* Kernel.dispose() called from outside the provider (the notebook was closed)
kernel_dispose(n) ==
    /\ n \in DOMAIN kernelObjs
    /\ kernelObjs[n].status = "alive"
    /\ kernelObjs' = [kernelObjs EXCEPT ![n].status = "disposing"]
    /\ UNCHANGED <<kernels, ret>>
    /\ UNCHANGED <<storageVars, sessionVars>>

\* Mutant of deleteMappingIfKernelIsDisposed: the entry of the key is deleted,
\* whichever kernel it holds.
deleteMappingIfKernelIsDisposed_AnyKernel(k, n) == [kernels EXCEPT ![k] = NoKernel]

\* the listener registered by deleteMappingIfKernelIsDisposed: the entry is
\* deleted if it still holds this kernel
deleteMappingIfKernelIsDisposed(k, n) ==
    IF kernels[k].kernel = n THEN [kernels EXCEPT ![k] = NoKernel] ELSE kernels

\* kernel.onDisposed fires, and the listener of deleteMappingIfKernelIsDisposed runs
kernel_onDisposed(n) ==
    /\ n \in DOMAIN kernelObjs
    /\ kernelObjs[n].status = "disposing"
    /\ kernelObjs' = [kernelObjs EXCEPT ![n].status = "disposed"]
    /\ kernels' = IF kernelObjs[n].listener
                  THEN deleteMappingIfKernelIsDisposed(kernelObjs[n].key, n)
                  ELSE kernels
    /\ UNCHANGED ret
    /\ UNCHANGED <<storageVars, sessionVars>>

ProviderNext ==
    \/ \E k \in Keys, m \in MetadataIds : getOrCreate(k, m)
    \/ \E n \in 1..MaxKernels : kernel_dispose(n)
    \/ \E n \in 1..MaxKernels : kernel_onDisposed(n)

\* ------------------------------------------------------- RawJupyterSession
\* One RawJupyterSession (rawJupyterSession.node.ts:358-917) with the RawSessions
\* it starts.  A RawSession and its kernel process are named by a number, 0 is
\* `undefined`.  connect() is called once; restart() and shutdown()/dispose()
\* may be called while earlier calls have not resolved.
RestartCalls == {"r1", "r2"}
ShutdownCalls == {"d1", "d2"}

\* a RawSession whose start was requested by startRawSession
\*   st          where startRawSession/postStartRawSession stands for it
\*   proc        its kernel process
\*   isDisposed  RawSession.isDisposed
\*   statusChanged  this.statusHandler is connected to session.statusChanged
\*   exitHandler this.processExitHandler holds a live listener of kernelProcess.exited
\*   shutdown    session.shutdown() as requested by shutdownSession
\*   forced      shutdownSession had to call session.dispose() itself
\*   exit        what the kernelProcess.exited handler did for it
\*   fired       the status events that handler fired
\*   cancelled   the cancellation token given to startRawSession
NewRawSession(purpose) ==
    [purpose |-> purpose, st |-> "launch", proc |-> "none", isDisposed |-> FALSE,
     statusChanged |-> FALSE, exitHandler |-> FALSE, shutdown |-> "none",
     forced |-> FALSE, exit |-> "none", fired |-> <<>>, cancelled |-> FALSE]

IdleRestart == [pc |-> "idle", oldSession |-> 0, newSession |-> 0, result |-> "none"]
IdleShutdown == [pc |-> "idle", session |-> 0, restartSession |-> 0, result |-> "none"]

\* the kernel-info probe before postStartRawSession reaches it
IdleProbe ==
    [pc |-> "idle", launchTimeout |-> 0, attempts |-> 0, requests |-> 0, reply |-> FALSE,
     gotIoPubMessage |-> FALSE, elapsed |-> 0]

RawInit ==
    /\ this = [session |-> 0, restartSessionPromise |-> 0, terminatingStatus |-> "none",
               isDisposed |-> FALSE, onStatusChangedEvent |-> "live", kernelSocket |-> <<>>,
               delivered |-> <<>>]
    /\ rawSessions = <<>>
    /\ connectCall = [pc |-> "idle", newSession |-> 0, result |-> "none"]
    /\ restartCalls = [c \in RestartCalls |-> IdleRestart]
    /\ shutdownCalls = [c \in ShutdownCalls |-> IdleShutdown]
    /\ probe = IdleProbe

\* A kernel has one session object, of one of the three classes: the first
\* operation on an object of a class is taken only if no object of the other
\* two classes is in use.
RawUnused == /\ connectCall.pc = "idle"
             /\ \A c \in ShutdownCalls : shutdownCalls[c].pc = "idle"
OldUnused == createCall.pc = "idle"
WrapperUnused == wrapper.kind = "none"

\* getServerStatus; the status of a kernel that runs is taken to be 'idle'
getServerStatus ==
    IF this.isDisposed THEN "dead"
    ELSE IF this.session # 0
         THEN (IF rawSessions[this.session].isDisposed THEN "dead" ELSE "idle")
         ELSE "unknown"

\* get status()
status ==
    IF this.terminatingStatus # "none" /\ getServerStatus # "dead"
    THEN this.terminatingStatus
    ELSE getServerStatus

\* postStartRawSession, the catch blocks: `await process.dispose(); result.dispose()`
\* and the error is thrown
disposeFailedStart(rs, s) ==
    [rs EXCEPT ![s] = [@ EXCEPT !.st = "failed", !.proc = "disposed", !.isDisposed = TRUE]]

\* startRawSession up to `await kernelLauncher.launch`: terminatingStatus is reset
\* and the launch of a kernel process is requested
startRawSession(purpose) ==
    /\ rawSessions' = Append(rawSessions, NewRawSession(purpose))
    /\ this' = [this EXCEPT !.terminatingStatus = "none",
                            !.restartSessionPromise =
                                IF purpose = "restart" THEN Len(rawSessions) + 1 ELSE @]

\* kernelLauncher.launch settles: with a process, or with an error (a
\* cancellation included) and no process
launch_settles(s, ok) ==
    /\ s \in DOMAIN rawSessions
    /\ rawSessions[s].st = "launch"
    /\ rawSessions' = [rawSessions EXCEPT ![s] =
            IF ok THEN [@ EXCEPT !.st = "ready", !.proc = "running"]
            ELSE [@ EXCEPT !.st = "failed"]]
    /\ UNCHANGED <<this, connectCall, restartCalls, shutdownCalls>>
    /\ UNCHANGED <<storageVars, providerVars, jupyterVars, probe, restVars>>

\* postStartRawSession: raceCancellationError(token, result.waitForReady()) settles
waitForReady_settles(s, ok) ==
    /\ s \in DOMAIN rawSessions
    /\ rawSessions[s].st = "ready"
    /\ rawSessions' =
            IF ok /\ ~rawSessions[s].cancelled
            THEN [rawSessions EXCEPT ![s].st = "probe1"]
            ELSE disposeFailedStart(rawSessions, s)
    /\ UNCHANGED <<this, connectCall, restartCalls, shutdownCalls>>
    /\ UNCHANGED <<storageVars, providerVars, jupyterVars, probe, restVars>>

\* postStartRawSession: one attempt of the kernel-info probe settles: with the
\* reply and an iopub message, on the timer, or with an error
requestKernelInfo_settles(s, outcome) ==
    /\ s \in DOMAIN rawSessions
    /\ rawSessions[s].st \in {"probe1", "probe2"}
    /\ rawSessions' =
            IF outcome = "error" \/ rawSessions[s].cancelled
            THEN disposeFailedStart(rawSessions, s)
            ELSE IF outcome = "reply" \/ rawSessions[s].st = "probe2"
            THEN [rawSessions EXCEPT ![s].st = "started"]
            ELSE [rawSessions EXCEPT ![s].st = "probe2"]
    /\ UNCHANGED <<this, connectCall, restartCalls, shutdownCalls>>
    /\ UNCHANGED <<storageVars, providerVars, jupyterVars, probe, restVars>>

\* setSession(session): the handlers of the current session are disconnected,
\* the session becomes current; a session that is not undefined gets the
\* handlers connected, terminatingStatus reset and a kernelProcess.exited listener
setSession_sessions(rs, s) ==
    LET disconnected == IF this.session = 0 THEN rs
                        ELSE [rs EXCEPT ![this.session].statusChanged = FALSE]
    IN  IF s = 0 THEN disconnected
        ELSE [disconnected EXCEPT ![s].statusChanged = TRUE, ![s].exitHandler = TRUE]

\* Mutant of setSession_kernelSocket: the information of the session that was
\* current is emitted.
setSession_kernelSocket_OfOldSession(t, s) ==
    IF s # 0 /\ t.session # s THEN Append(t.kernelSocket, t.session) ELSE t.kernelSocket

\* setSession: `if ((forceUpdateKernelSocketInfo || oldSession !== session) &&
\* session.kernel) this._kernelSocket.next(...)`, the value emitted being known
\* by the number of the session whose kernel id and socket it carries
setSession_kernelSocket(t, s) ==
    IF s # 0 /\ t.session # s THEN Append(t.kernelSocket, s) ELSE t.kernelSocket

setSession_this(t, s) ==
    [t EXCEPT !.session = s, !.terminatingStatus = IF s = 0 THEN @ ELSE "none",
              !.kernelSocket = setSession_kernelSocket(t, s)]

\* Mutant of shutdownSession: the kernelProcess.exited listener is left in place.
shutdownSession_KeepsExitListener(rs, s, statusHandler) ==
    IF s = 0 THEN rs
    ELSE [rs EXCEPT ![s] = [@ EXCEPT
            !.statusChanged = IF statusHandler THEN FALSE ELSE @,
            !.shutdown = IF rs[s].isDisposed THEN "done"
                         ELSE IF @ = "none" THEN "pending" ELSE @,
            !.proc = IF rs[s].isDisposed THEN "disposed" ELSE @]]

\* shutdownSession(session, statusHandler, _) up to `await raceTimeout(1000,
\* session.shutdown())`: the exit listener is disposed, the status handler
\* disconnected if one is given, session.shutdown() requested unless the session
\* is disposed already (then only kernelProcess.dispose() is left to do)
shutdownSession(rs, s, statusHandler) ==
    IF s = 0 THEN rs
    ELSE [rs EXCEPT ![s] = [@ EXCEPT
            !.exitHandler = FALSE,
            !.statusChanged = IF statusHandler THEN FALSE ELSE @,
            !.shutdown = IF rs[s].isDisposed THEN "done"
                         ELSE IF @ = "none" THEN "pending" ELSE @,
            !.proc = IF rs[s].isDisposed THEN "disposed" ELSE @]]

\* connect() up to `await this.startRawSession`
connect ==
    /\ OldUnused /\ WrapperUnused
    /\ connectCall.pc = "idle"
    /\ ~this.isDisposed
    /\ startRawSession("start")
    /\ connectCall' = [connectCall EXCEPT !.pc = "starting", !.newSession = Len(rawSessions) + 1]
    /\ UNCHANGED <<restartCalls, shutdownCalls>>
    /\ UNCHANGED <<storageVars, providerVars, jupyterVars, probe, restVars>>

\* the owner of the token given to connect() cancels it
token_cancel ==
    /\ connectCall.pc = "starting"
    /\ ~rawSessions[connectCall.newSession].cancelled
    /\ rawSessions' = [rawSessions EXCEPT ![connectCall.newSession].cancelled = TRUE]
    /\ UNCHANGED <<this, connectCall, restartCalls, shutdownCalls>>
    /\ UNCHANGED <<storageVars, providerVars, jupyterVars, probe, restVars>>

\* connect() after `await this.startRawSession`: the error is rethrown, or
\* Cancellation.throwIfCanceled throws, or the new session becomes current
connect_afterStart ==
    /\ connectCall.pc = "starting"
    /\ LET s == connectCall.newSession
       IN  /\ rawSessions[s].st \in {"started", "failed"}
           /\ IF rawSessions[s].st = "failed" \/ rawSessions[s].cancelled
              THEN /\ connectCall' = [connectCall EXCEPT !.pc = "done", !.result = "rejected"]
                   /\ UNCHANGED <<this, rawSessions>>
              ELSE /\ connectCall' = [connectCall EXCEPT !.pc = "done", !.result = "ok"]
                   /\ rawSessions' = setSession_sessions(rawSessions, s)
                   /\ this' = setSession_this(this, s)
    /\ UNCHANGED <<restartCalls, shutdownCalls>>
    /\ UNCHANGED <<storageVars, providerVars, jupyterVars, probe, restVars>>

\* the slot taken by the next call of restart(), of shutdown()/dispose()
FreeRestart == CHOOSE c \in RestartCalls :
    /\ restartCalls[c].pc = "idle"
    /\ c = "r1" \/ restartCalls["r1"].pc # "idle"
FreeShutdown == CHOOSE c \in ShutdownCalls :
    /\ shutdownCalls[c].pc = "idle"
    /\ c = "d1" \/ shutdownCalls["d1"].pc # "idle"

\* restart() up to `await this.startRestartSession(false)`, on a session that
\* was connected and is not disposed: the current session is remembered and
\* startRestartSession stores the promise of a new session
restart(c) ==
    /\ \E d \in RestartCalls : restartCalls[d].pc = "idle"
    /\ c = FreeRestart
    /\ connectCall.result = "ok"
    /\ ~this.isDisposed
    /\ startRawSession("restart")
    /\ restartCalls' = [restartCalls EXCEPT ![c] =
            [pc |-> "starting", oldSession |-> this.session,
             newSession |-> Len(rawSessions) + 1, result |-> "none"]]
    /\ UNCHANGED <<connectCall, shutdownCalls>>
    /\ UNCHANGED <<storageVars, providerVars, jupyterVars, probe, restVars>>

\* Mutant of restartSessionSettled: the handler forgets the current session
\* along with the promise.
restartSessionSettled_ForgetsSession(t, s) ==
    [t EXCEPT !.restartSessionPromise = IF @ = s THEN 0 ELSE @, !.session = 0]

\* startRestartSession, the finally handler of the promise
restartSessionSettled(t, s) ==
    [t EXCEPT !.restartSessionPromise = IF @ = s THEN 0 ELSE @]

\* Mutant of restart_setSession: the old session stays current.
restart_setSession_KeepsOld(oldSession, newSession) == oldSession

\* restart(): `this.setSession(newSession)`
restart_setSession(oldSession, newSession) == newSession

\* restart() after `await this.startRestartSession(false)`: it rejects, or the
\* new session becomes current, the handlers of the old one are disconnected
\* and the shutdown of the old one is requested and not awaited
restart_afterStart(c) ==
    /\ restartCalls[c].pc = "starting"
    /\ LET s == restartCalls[c].newSession
           oldSession == restartCalls[c].oldSession
           current == restart_setSession(oldSession, s)
           disconnected == IF oldSession = 0 THEN setSession_sessions(rawSessions, current)
                           ELSE [setSession_sessions(rawSessions, current)
                                    EXCEPT ![oldSession].statusChanged =
                                        IF oldSession = current THEN @ ELSE FALSE]
       IN  /\ rawSessions[s].st \in {"started", "failed"}
           /\ IF rawSessions[s].st = "failed"
              THEN /\ restartCalls' = [restartCalls EXCEPT ![c].pc = "done",
                                                           ![c].result = "rejected"]
                   /\ this' = restartSessionSettled(this, s)
                   /\ UNCHANGED rawSessions
              ELSE /\ restartCalls' = [restartCalls EXCEPT ![c].pc = "done",
                                                           ![c].result = "ok"]
                   /\ this' = setSession_this(restartSessionSettled(this, s), current)
                   /\ rawSessions' = shutdownSession(disconnected, oldSession, FALSE)
    /\ UNCHANGED <<connectCall, shutdownCalls>>
    /\ UNCHANGED <<storageVars, providerVars, jupyterVars, probe, restVars>>

\* the kernel process of a session exits while a listener of kernelProcess.exited
\* is live or the shutdown of the session is under way.  The listener registered
\* by setSession, if it is still live and the session is the current one: sets
\* terminatingStatus, fires 'terminating', clears the current session and
\* requests the shutdown of the session
kernelProcess_exited(s) ==
    /\ s \in DOMAIN rawSessions
    /\ rawSessions[s].st = "started"
    /\ rawSessions[s].proc = "running"
    /\ rawSessions[s].exitHandler \/ rawSessions[s].shutdown = "pending"
    /\ IF rawSessions[s].exitHandler /\ this.session = s
       THEN /\ this' = [this EXCEPT !.terminatingStatus = "terminating", !.session = 0]
            /\ rawSessions' = shutdownSession(
                    [setSession_sessions(rawSessions, 0) EXCEPT ![s] = [@ EXCEPT
                        !.proc = "exited",
                        !.exit = "terminating",
                        !.fired = IF this.onStatusChangedEvent = "live"
                                  THEN Append(@, "terminating") ELSE @]],
                    s, TRUE)
       ELSE /\ rawSessions' = [rawSessions EXCEPT ![s].proc = "exited"]
            /\ UNCHANGED this
    /\ UNCHANGED <<connectCall, restartCalls, shutdownCalls>>
    /\ UNCHANGED <<storageVars, providerVars, jupyterVars, probe, restVars>>

\* shutdownSession after `await raceTimeout(1000, session.shutdown())`, whatever
\* the outcome: `if (!session.isDisposed) session.dispose()`, then
\* `session.kernelProcess.dispose()`
forceDispose(session, outcome) ==
    [session EXCEPT !.isDisposed = TRUE,
                    !.forced = (outcome # "ok"),
                    !.proc = "disposed"]

\* raceTimeout(1000, session.shutdown()) settles: the shutdown succeeded, threw,
\* or the second went by; every shutdownSession waiting for it goes on
session_shutdown_settles(s, outcome) ==
    /\ s \in DOMAIN rawSessions
    /\ rawSessions[s].shutdown = "pending"
    /\ rawSessions' = [rawSessions EXCEPT ![s] =
            [forceDispose(@, outcome) EXCEPT !.shutdown = "done"]]
    /\ UNCHANGED <<this, connectCall, restartCalls, shutdownCalls>>
    /\ UNCHANGED <<storageVars, providerVars, jupyterVars, probe, restVars>>

\* Mutant of stillTerminating: the finally handler never fires 'dead'.
stillTerminating_Never(t) == FALSE

\* the exit listener, finally: `if (this.terminatingStatus)`
stillTerminating(t) == t.terminatingStatus # "none"

\* the finally handler of the shutdownSession requested by the exit listener:
\* `if (this.terminatingStatus)` the status becomes 'dead' and 'dead' is fired
exited_finally(s) ==
    /\ s \in DOMAIN rawSessions
    /\ rawSessions[s].exit = "terminating"
    /\ rawSessions[s].shutdown = "done"
    /\ IF stillTerminating(this)
       THEN /\ this' = [this EXCEPT !.terminatingStatus = "dead"]
            /\ rawSessions' = [rawSessions EXCEPT ![s] = [@ EXCEPT
                    !.exit = "dead",
                    !.fired = IF this.onStatusChangedEvent = "live"
                              THEN Append(@, "dead") ELSE @]]
       ELSE /\ rawSessions' = [rawSessions EXCEPT ![s].exit = "skipped"]
            /\ UNCHANGED this
    /\ UNCHANGED <<connectCall, restartCalls, shutdownCalls>>
    /\ UNCHANGED <<storageVars, providerVars, jupyterVars, probe, restVars>>

\* disposeAllDisposables(this.disposables): the kernelProcess.exited listeners
disposeAllDisposables(rs) == [s \in DOMAIN rs |-> [rs[s] EXCEPT !.exitHandler = FALSE]]

\* shutdownImplementation, `this.onStatusChangedEvent.fire('dead');
\* this._disposed.fire(); this.didShutdown.fire();`: what the listeners of the
\* three emitters receive; an emitter that was disposed delivers nothing
shutdownEvents(t) ==
    IF t.onStatusChangedEvent = "live"
    THEN <<"dead", "onDidDispose", "onDidShutdown">>
    ELSE <<>>

\* shutdownImplementation from `this.setSession(undefined)` to its end; the
\* three emitters are disposed together
shutdownImplementation_end(c) ==
    /\ this' = [setSession_this(this, 0) EXCEPT !.restartSessionPromise = 0,
                                                !.delivered = @ \o shutdownEvents(this),
                                                !.onStatusChangedEvent = "disposed"]
    /\ rawSessions' = disposeAllDisposables(setSession_sessions(rawSessions, 0))
    /\ shutdownCalls' = [shutdownCalls EXCEPT ![c].pc = "done", ![c].result = "ok"]

\* shutdown() or dispose(), called by the owner of the object, who calls it
\* before connect() or after connect() has settled: shutdownImplementation up
\* to `await this.shutdownSession(this.session, ...)`, or to its end if there
\* is no current session
shutdown(c) ==
    /\ OldUnused /\ WrapperUnused
    /\ \E d \in ShutdownCalls : shutdownCalls[d].pc = "idle"
    /\ c = FreeShutdown
    /\ connectCall.pc # "starting"
    /\ IF this.session # 0
       THEN /\ this' = [this EXCEPT !.isDisposed = TRUE]
            /\ rawSessions' = shutdownSession(rawSessions, this.session, TRUE)
            /\ shutdownCalls' = [shutdownCalls EXCEPT ![c] =
                    [pc |-> "current", session |-> this.session, restartSession |-> 0,
                     result |-> "none"]]
       ELSE /\ this' = [this EXCEPT !.isDisposed = TRUE]
            /\ rawSessions' = disposeAllDisposables(rawSessions)
            /\ shutdownCalls' = [shutdownCalls EXCEPT ![c].pc = "done", ![c].result = "ok"]
    /\ UNCHANGED <<connectCall, restartCalls>>
    /\ UNCHANGED <<storageVars, providerVars, jupyterVars, probe, restVars>>

\* shutdownImplementation after the shutdown of the current session: the token
\* of a restart session in preparation is cancelled and its promise awaited
shutdownImplementation_afterCurrent(c) ==
    /\ shutdownCalls[c].pc = "current"
    /\ rawSessions[shutdownCalls[c].session].shutdown = "done"
    /\ IF this.restartSessionPromise # 0
       THEN /\ rawSessions' = [rawSessions EXCEPT ![this.restartSessionPromise].cancelled = TRUE]
            /\ shutdownCalls' = [shutdownCalls EXCEPT ![c].pc = "restartPromise",
                                    ![c].restartSession = this.restartSessionPromise]
            /\ UNCHANGED this
       ELSE shutdownImplementation_end(c)
    /\ UNCHANGED <<connectCall, restartCalls>>
    /\ UNCHANGED <<storageVars, providerVars, jupyterVars, probe, restVars>>

\* shutdownImplementation after `await this.restartSessionPromise.promise`, which
\* restart() awaits before it: a rejection is swallowed, a restart session is
\* shut down
shutdownImplementation_afterRestartPromise(c) ==
    /\ shutdownCalls[c].pc = "restartPromise"
    /\ LET s == shutdownCalls[c].restartSession
       IN  /\ rawSessions[s].st \in {"started", "failed"}
           /\ \A r \in RestartCalls :
                restartCalls[r].newSession = s => restartCalls[r].pc = "done"
           /\ IF rawSessions[s].st = "failed"
              THEN shutdownImplementation_end(c)
              ELSE /\ rawSessions' = shutdownSession(rawSessions, s, FALSE)
                   /\ shutdownCalls' = [shutdownCalls EXCEPT ![c].pc = "restartSession"]
                   /\ UNCHANGED this
    /\ UNCHANGED <<connectCall, restartCalls>>
    /\ UNCHANGED <<storageVars, providerVars, jupyterVars, probe, restVars>>

\* shutdownImplementation after the shutdown of the restart session
shutdownImplementation_afterRestartSession(c) ==
    /\ shutdownCalls[c].pc = "restartSession"
    /\ rawSessions[shutdownCalls[c].restartSession].shutdown = "done"
    /\ shutdownImplementation_end(c)
    /\ UNCHANGED <<connectCall, restartCalls>>
    /\ UNCHANGED <<storageVars, providerVars, jupyterVars, probe, restVars>>

RawNext ==
    \/ connect
    \/ token_cancel
    \/ \E s \in DOMAIN rawSessions, ok \in BOOLEAN : launch_settles(s, ok)
    \/ \E s \in DOMAIN rawSessions, ok \in BOOLEAN : waitForReady_settles(s, ok)
    \/ \E s \in DOMAIN rawSessions, outcome \in {"reply", "timeout", "error"} :
            requestKernelInfo_settles(s, outcome)
    \/ connect_afterStart
    \/ \E c \in RestartCalls : restart(c)
    \/ \E c \in RestartCalls : restart_afterStart(c)
    \/ \E s \in DOMAIN rawSessions : kernelProcess_exited(s)
    \/ \E s \in DOMAIN rawSessions, outcome \in {"ok", "threw", "timeout"} :
            session_shutdown_settles(s, outcome)
    \/ \E s \in DOMAIN rawSessions : exited_finally(s)
    \/ \E c \in ShutdownCalls : shutdown(c)
    \/ \E c \in ShutdownCalls : shutdownImplementation_afterCurrent(c)
    \/ \E c \in ShutdownCalls : shutdownImplementation_afterRestartPromise(c)
    \/ \E c \in ShutdownCalls : shutdownImplementation_afterRestartSession(c)

\* ------------------------------------- OldJupyterSession.createNewKernelSession
\* An error object: its class, the place that constructed it (two errors are the
\* same object only if the same place made them), and the metadata it was built from.
NoError == [class |-> "none", site |-> "none", metadata |-> "none"]
ErrorAt(class, site) == [class |-> class, site |-> site, metadata |-> "none"]

\* `new CancellationError()`: the class of 'vscode' (import at line 5)
CancellationError(site) == ErrorAt("CancellationError", site)

\* createSessionImpl: `.catch((ex) => Promise.reject(new JupyterSessionStartError(ex)))`
JupyterSessionStartError == ErrorAt("JupyterSessionStartError", "createSessionImpl")

\* `new JupyterInvalidKernelError(this.kernelConnectionMetadata)`
JupyterInvalidKernelError(metadata) ==
    [class |-> "JupyterInvalidKernelError", site |-> "createNewKernelSession", metadata |-> metadata]

\* `exc instanceof BaseError`: BaseError itself and the classes that extend it
instanceofBaseError(exc) ==
    exc.class \in {"BaseError", "JupyterSessionStartError", "JupyterInvalidKernelError"}

\* what kernelService.ensureKernelIsUsable and backingFileCreator.createBackingFile
\* can throw: a typed error or any other error
KernelServiceErrors == {ErrorAt("BaseError", "kernelService"), ErrorAt("Error", "kernelService")}

\* what waitForIdleOnSession throws when the kernel does not become idle
WaitForIdleErrors == {ErrorAt("BaseError", "waitForIdleOnSession"), ErrorAt("Error", "waitForIdleOnSession")}

\* the kernel connection metadata an OldJupyterSession is constructed with
SessionMetadataIds == {"m1", "m2"}

IdleCreate ==
    [pc |-> "idle", live |-> FALSE, metadata |-> "none", cancelled |-> FALSE,
     newSession |-> FALSE, caught |-> NoError, thrown |-> NoError, result |-> "none"]

OldInit == createCall = IdleCreate

\* Mutant of createNewKernelSession_catch: every error is wrapped.
createNewKernelSession_catch_WrapsAll(exc, metadata) == JupyterInvalidKernelError(metadata)

\* createNewKernelSession, the catch clause: what it throws for the error it caught
createNewKernelSession_catch(exc, metadata) ==
    IF instanceofBaseError(exc) THEN exc ELSE JupyterInvalidKernelError(metadata)

\* the try block of createNewKernelSession threw exc
createNewKernelSession_throws(call, exc) ==
    [call EXCEPT !.pc = "done", !.result = "threw", !.caught = exc,
                 !.thrown = createNewKernelSession_catch(exc, call.metadata)]

\* createNewKernelSession reached `return newSession`
createNewKernelSession_returns(call) ==
    [call EXCEPT !.pc = "done", !.result = "session", !.newSession = TRUE]

\* createNewKernelSession up to its first await: sessionManager.connectTo and
\* waitForCondition for a live remote kernel, or createSession
createNewKernelSession(live, metadata) ==
    /\ RawUnused /\ WrapperUnused
    /\ createCall.pc = "idle"
    /\ createCall' = [createCall EXCEPT
            !.pc = IF live THEN "waitForCondition" ELSE "createSessionImpl1",
            !.live = live, !.metadata = metadata, !.newSession = live]
    /\ UNCHANGED <<wrapper, wrapperCalls>>
    /\ UNCHANGED <<storageVars, providerVars, rawVars, probe, restVars>>

\* the owner of the token given to connect() cancels it while the session starts
createSession_token_cancel ==
    /\ createCall.pc \notin {"idle", "done"}
    /\ ~createCall.cancelled
    /\ createCall' = [createCall EXCEPT !.cancelled = TRUE]
    /\ UNCHANGED <<wrapper, wrapperCalls>>
    /\ UNCHANGED <<storageVars, providerVars, rawVars, probe, restVars>>

\* waitForCondition resolves: connected, the token cancelled, or idleTimeout over;
\* then `if (options.token.isCancellationRequested) throw new CancellationError()`
waitForCondition_settles ==
    /\ createCall.pc = "waitForCondition"
    /\ createCall' = IF createCall.cancelled
                     THEN createNewKernelSession_throws(createCall, CancellationError("createNewKernelSession"))
                     ELSE createNewKernelSession_returns(createCall)
    /\ UNCHANGED <<wrapper, wrapperCalls>>
    /\ UNCHANGED <<storageVars, providerVars, rawVars, probe, restVars>>

\* what an attempt of createSessionImpl can end with: raceCancellationError
\* rejects once the token is cancelled; else the session (NoError), the error of
\* the kernel service, or the wrapped error of the session manager
createSessionImpl_outcomes(call) ==
    IF call.cancelled
    THEN {CancellationError("raceCancellationError")} \cup KernelServiceErrors
    ELSE {NoError, JupyterSessionStartError} \cup KernelServiceErrors

\* createSessionImpl settles: createSession retries once with a backing file,
\* and rethrows the error of the second attempt
createSessionImpl_settles(exc) ==
    /\ createCall.pc \in {"createSessionImpl1", "createSessionImpl2"}
    /\ exc \in createSessionImpl_outcomes(createCall)
    /\ createCall' =
        IF exc = NoError
        THEN [createCall EXCEPT !.pc = "waitForIdleOnSession", !.newSession = TRUE]
        ELSE IF createCall.pc = "createSessionImpl1"
             THEN [createCall EXCEPT !.pc = "createSessionImpl2"]
             ELSE createNewKernelSession_throws(createCall, exc)
    /\ UNCHANGED <<wrapper, wrapperCalls>>
    /\ UNCHANGED <<storageVars, providerVars, rawVars, probe, restVars>>

\* this.waitForIdleOnSession(newSession, idleTimeout, token) settles
waitForIdleOnSession_settles(exc) ==
    /\ createCall.pc = "waitForIdleOnSession"
    /\ exc \in (IF createCall.cancelled THEN {CancellationError("waitForIdleOnSession")}
                ELSE {NoError}) \cup WaitForIdleErrors
    /\ createCall' = IF exc = NoError
                     THEN createNewKernelSession_returns(createCall)
                     ELSE createNewKernelSession_throws(createCall, exc)
    /\ UNCHANGED <<wrapper, wrapperCalls>>
    /\ UNCHANGED <<storageVars, providerVars, rawVars, probe, restVars>>

AllErrors ==
    {NoError, JupyterSessionStartError} \cup KernelServiceErrors \cup WaitForIdleErrors
    \cup {CancellationError(site) : site \in {"raceCancellationError", "waitForIdleOnSession"}}

OldNext ==
    \/ \E live \in BOOLEAN, metadata \in SessionMetadataIds : createNewKernelSession(live, metadata)
    \/ createSession_token_cancel
    \/ waitForCondition_settles
    \/ \E exc \in AllErrors : createSessionImpl_settles(exc)
    \/ \E exc \in AllErrors : waitForIdleOnSession_settles(exc)

\* --------------------------------------------------------- JupyterSessionWrapper
WrapperCalls == {"w1", "w2"}
KernelKinds == {"connectToLiveRemoteKernel", "startUsingRemoteKernelSpec", "startUsingLocalKernelSpec"}
ResourceTypes == {"notebook", "interactive"}

NoWrapper ==
    [kind |-> "none", resourceType |-> "none", isDisposed |-> FALSE, baseDisposed |-> FALSE,
     teardowns |-> 0,
     session |-> [isDisposed |-> FALSE, shutdown |-> "none", outcome |-> "none", forced |-> FALSE,
                  requests |-> 0]]
IdleWrapperCall == [pc |-> "idle", shutdownEvenIfRemote |-> FALSE, early |-> FALSE, result |-> "none"]

WrapperInit ==
    /\ wrapper = NoWrapper
    /\ wrapperCalls = [c \in WrapperCalls |-> IdleWrapperCall]

JupyterInit ==
    /\ OldInit
    /\ WrapperInit
    /\ suite = [pc |-> "setup", helper |-> "none", connection |-> "none", source |-> "none",
                selected |-> FALSE, atFire |-> {}, atNext |-> {}]

\* new JupyterSessionWrapper(session, resource, kernelConnectionMetadata, ...)
JupyterSessionWrapper(kind, resourceType) ==
    /\ RawUnused /\ OldUnused
    /\ wrapper = NoWrapper
    /\ wrapper' = [NoWrapper EXCEPT !.kind = kind, !.resourceType = resourceType]
    /\ UNCHANGED <<createCall, wrapperCalls>>
    /\ UNCHANGED <<storageVars, providerVars, rawVars, probe, restVars>>

\* Mutant of canShutdownSession: the interactive window is asked about first.
canShutdownSession_InteractiveFirst(w) ==
    IF w.resourceType = "interactive" THEN TRUE
    ELSE IF w.kind = "connectToLiveRemoteKernel" THEN FALSE
    ELSE IF w.resourceType = "notebook" /\ w.kind # "startUsingLocalKernelSpec" THEN FALSE
    ELSE TRUE

\* JupyterSessionWrapper.canShutdownSession
canShutdownSession(w) ==
    IF w.kind = "connectToLiveRemoteKernel" THEN FALSE
    ELSE IF w.resourceType = "interactive" THEN TRUE
    ELSE IF w.resourceType = "notebook" /\ w.kind # "startUsingLocalKernelSpec" THEN FALSE
    ELSE TRUE

\* Mutant of wrapper_forceDispose: a session whose shutdown threw or timed out is
\* left as it is.
wrapper_forceDispose_OnlyAfterShutdown(session, outcome) ==
    [session EXCEPT !.isDisposed = (outcome = "ok"), !.outcome = outcome, !.shutdown = "done"]

\* JupyterSessionWrapper.shutdownSession after the awaited shutdown, whatever its
\* outcome: `if (!this.session.isDisposed) this.session.dispose()`
wrapper_forceDispose(session, outcome) ==
    [session EXCEPT !.isDisposed = TRUE, !.outcome = outcome, !.forced = (outcome # "ok"),
                    !.shutdown = "done"]

\* shutdownImplementation after shutdownSession: previousAnyMessageHandler?.dispose(),
\* super.dispose()
wrapper_superDispose(w) == [w EXCEPT !.baseDisposed = TRUE]

\* Mutant of wrapper_alreadyDisposed: the flag is not looked at.
wrapper_alreadyDisposed_Never(w) == FALSE

\* shutdownImplementation, `if (this._isDisposed) { return; }`
wrapper_alreadyDisposed(w) == w.isDisposed

\* JupyterSessionWrapper.status; the status of a kernel that runs is taken to
\* be 'idle'
wrapper_status(w) == IF w.isDisposed THEN "dead" ELSE "idle"

FreeWrapperCall == CHOOSE c \in WrapperCalls :
    /\ wrapperCalls[c].pc = "idle"
    /\ c = "w1" \/ wrapperCalls["w1"].pc # "idle"

\* dispose() (shutdownEvenIfRemote false) or shutdown() (true): shutdownImplementation
\* up to `await raceTimeout(1000, this.session.shutdown())`, or to its end when
\* the wrapper is disposed already or the session must not be shut down
wrapper_shutdownImplementation(c, shutdownEvenIfRemote) ==
    /\ wrapper # NoWrapper
    /\ \E d \in WrapperCalls : wrapperCalls[d].pc = "idle"
    /\ c = FreeWrapperCall
    /\ IF wrapper_alreadyDisposed(wrapper)
       THEN /\ wrapperCalls' = [wrapperCalls EXCEPT ![c] =
                    [pc |-> "done", shutdownEvenIfRemote |-> shutdownEvenIfRemote,
                     early |-> TRUE, result |-> "ok"]]
            /\ UNCHANGED wrapper
       ELSE IF ~shutdownEvenIfRemote /\ ~canShutdownSession(wrapper)
       THEN /\ wrapperCalls' = [wrapperCalls EXCEPT ![c] =
                    [pc |-> "done", shutdownEvenIfRemote |-> shutdownEvenIfRemote,
                     early |-> FALSE, result |-> "ok"]]
            /\ wrapper' = wrapper_superDispose(
                    [wrapper EXCEPT !.isDisposed = TRUE, !.teardowns = @ + 1,
                                    !.session.isDisposed = TRUE])
       ELSE /\ wrapperCalls' = [wrapperCalls EXCEPT ![c] =
                    [pc |-> "shutdownSession", shutdownEvenIfRemote |-> shutdownEvenIfRemote,
                     early |-> FALSE, result |-> "none"]]
            /\ wrapper' = [wrapper EXCEPT !.isDisposed = TRUE, !.teardowns = @ + 1,
                                          !.session.shutdown = "pending",
                                          !.session.requests = @ + 1]
    /\ UNCHANGED createCall
    /\ UNCHANGED <<storageVars, providerVars, rawVars, probe, restVars>>

\* raceTimeout(1000, this.session.shutdown()) settles: the shutdown succeeded,
\* threw, or the second went by; shutdownSession and shutdownImplementation go
\* on to their ends
wrapper_shutdown_settles(c, outcome) ==
    /\ wrapperCalls[c].pc = "shutdownSession"
    /\ wrapper' = wrapper_superDispose([wrapper EXCEPT !.session = wrapper_forceDispose(@, outcome)])
    /\ wrapperCalls' = [wrapperCalls EXCEPT ![c].pc = "done", ![c].result = "ok"]
    /\ UNCHANGED createCall
    /\ UNCHANGED <<storageVars, providerVars, rawVars, probe, restVars>>

WrapperNext ==
    \/ \E kind \in KernelKinds, resourceType \in ResourceTypes : JupyterSessionWrapper(kind, resourceType)
    \/ \E c \in WrapperCalls, shutdownEvenIfRemote \in BOOLEAN :
            wrapper_shutdownImplementation(c, shutdownEvenIfRemote)
    \/ \E c \in WrapperCalls, outcome \in {"ok", "threw", "timeout"} : wrapper_shutdown_settles(c, outcome)

SessionNext ==
    \/ RawNext
    \/ OldNext
    \/ WrapperNext

\* ------------------------------ RawJupyterSession.postStartRawSession, the probe
\* The kernel-info probe of one session start, in milliseconds.
\*   pc               idle, waiting (in the raceCancellationError of an attempt),
\*                    done (the loop was left), threw (the catch block rethrew)
\*   attempts         the loop variable
\*   requests         calls of result.kernel.requestKernelInfo() so far
\*   reply            the request of this attempt was answered
\*   gotIoPubMessage  gotIoPubMessage.completed, the deferred of this attempt
\*   elapsed          time since the attempt began
\* rawJupyterSession.node.ts:766
ProbeTimeout == 1500
\* rawJupyterSession.node.ts:757, `attempts <= 2`
MaxProbeAttempts == 2
\* the launch timeouts the session is constructed with, and the delays after
\* which something happens
LaunchTimeouts == {500, 1500, 3000}
Delays == {500, 1000}

\* `sleep(Math.min(this.launchTimeout, 1_500))`
probeTimer(launchTimeout) == Min(launchTimeout, ProbeTimeout)

\* the top of the loop body: a fresh deferred, the iopub handler connected, the
\* request sent
probe_attempt(p, attempts) ==
    [p EXCEPT !.pc = "waiting", !.attempts = attempts, !.requests = @ + 1,
              !.reply = FALSE, !.gotIoPubMessage = FALSE, !.elapsed = 0]

\* Mutant of probe_attemptEnds: the loop goes on whether an iopub message came or not.
probe_attemptEnds_NoBreak(p) ==
    IF p.attempts + 1 <= MaxProbeAttempts
    THEN probe_attempt(p, p.attempts + 1)
    ELSE [p EXCEPT !.pc = "done", !.attempts = @ + 1]

\* the race of an attempt resolved: `if (gotIoPubMessage.completed) break; else
\* continue;` and the loop condition
probe_attemptEnds(p) ==
    IF p.gotIoPubMessage THEN [p EXCEPT !.pc = "done"]
    ELSE IF p.attempts + 1 <= MaxProbeAttempts
    THEN probe_attempt(p, p.attempts + 1)
    ELSE [p EXCEPT !.pc = "done", !.attempts = @ + 1]

\* postStartRawSession reaches the loop, for a session with this launch timeout
probe_start(launchTimeout) ==
    /\ probe.pc = "idle"
    /\ probe' = probe_attempt([probe EXCEPT !.launchTimeout = launchTimeout], 1)
    /\ UNCHANGED <<storageVars, providerVars, rawVars, jupyterVars, restVars>>

\* time goes by, no longer than up to the timer of the attempt
probe_wait(d) ==
    /\ probe.pc = "waiting"
    /\ probe.elapsed + d <= probeTimer(probe.launchTimeout)
    /\ probe' = [probe EXCEPT !.elapsed = @ + d]
    /\ UNCHANGED <<storageVars, providerVars, rawVars, jupyterVars, restVars>>

\* requestKernelInfo() resolves; Promise.all resolves if the iopub message came
probe_reply ==
    /\ probe.pc = "waiting"
    /\ ~probe.reply
    /\ probe' = IF probe.gotIoPubMessage
                THEN probe_attemptEnds([probe EXCEPT !.reply = TRUE])
                ELSE [probe EXCEPT !.reply = TRUE]
    /\ UNCHANGED <<storageVars, providerVars, rawVars, jupyterVars, restVars>>

\* iopubHandler runs: gotIoPubMessage.resolve(true); Promise.all resolves if the
\* request was answered
probe_iopubMessage ==
    /\ probe.pc = "waiting"
    /\ ~probe.gotIoPubMessage
    /\ probe' = IF probe.reply
                THEN probe_attemptEnds([probe EXCEPT !.gotIoPubMessage = TRUE])
                ELSE [probe EXCEPT !.gotIoPubMessage = TRUE]
    /\ UNCHANGED <<storageVars, providerVars, rawVars, jupyterVars, restVars>>

\* the sleep of the attempt is over
probe_timer ==
    /\ probe.pc = "waiting"
    /\ probe.elapsed = probeTimer(probe.launchTimeout)
    /\ probe' = probe_attemptEnds(probe)
    /\ UNCHANGED <<storageVars, providerVars, rawVars, jupyterVars, restVars>>

\* the token is cancelled or requestKernelInfo() rejects: the catch block
\* disposes the process and the session and rethrows
probe_throws ==
    /\ probe.pc = "waiting"
    /\ probe' = [probe EXCEPT !.pc = "threw"]
    /\ UNCHANGED <<storageVars, providerVars, rawVars, jupyterVars, restVars>>

ProbeNext ==
    \/ \E launchTimeout \in LaunchTimeouts : probe_start(launchTimeout)
    \/ \E d \in Delays : probe_wait(d)
    \/ probe_reply
    \/ probe_iopubMessage
    \/ probe_timer
    \/ probe_throws

\* ------------------------- suite 'Remote kernel connection handler' (the tests)
\* RemoteKernelConnectionHandler is known here by its tests only: the handler
\* reacts to an event by any calls on the mocked tracker and on the mocked
\* PreferredRemoteKernelIdProvider, and the verify(...) lines of a test decide
\* whether the test passes.
\*   pc       setup, activated, fired (the first event was fired and the first
\*            verifications passed), passed, failed
\*   helper   the helper function the test calls, with its two arguments
\*   atFire   the calls the handler made up to and at the first event
\*   atNext   the calls it made when the kernel socket information was emitted
TrackerFns == {"trackKernelIdAsUsed", "trackKernelIdAsNotUsed", "storePreferredRemoteKernelId"}
\* kernelInfo.options.id of the emitted value, kernelModel.id of remoteLiveKernel1
TestKernelIds == {"modelId1", "model1"}
HandlerCalls ==
    [fn : TrackerFns, id : TestKernelIds] \cup {[fn |-> "clearPreferredRemoteKernelId", id |-> "none"]}

\* RemoteKernelConnectionHandler: what the handler may do when an event reaches
\* it, any set of calls
handlerReactions == SUBSET HandlerCalls

\* the tests of the suite: <<connection, source>> and <<connection, selected>>
StartTests ==
    { <<"startUsingRemoteKernelSpec", "jupyterExtension">>,
      <<"startUsingLocalKernelSpec", "jupyterExtension">>,
      <<"startUsingLocalKernelSpec", "3rdPartyExtension">>,
      <<"connectToLiveRemoteKernel", "jupyterExtension">>,
      <<"connectToLiveRemoteKernel", "3rdPartyExtension">> }
SelectionTests ==
    { <<"startUsingLocalKernelSpec", TRUE>>,
      <<"startUsingRemoteKernelSpec", TRUE>>,
      <<"connectToLiveRemoteKernel", TRUE>>,
      <<"connectToLiveRemoteKernel", FALSE>> }

SuiteSetup ==
    [pc |-> "setup", helper |-> "none", connection |-> "none", source |-> "none",
     selected |-> FALSE, atFire |-> {}, atNext |-> {}]

\* ts-mockito: the number of calls of fn with these arguments, with any arguments
TimesCalled(s, fn, id) ==
    (IF [fn |-> fn, id |-> id] \in s.atFire THEN 1 ELSE 0)
    + (IF [fn |-> fn, id |-> id] \in s.atNext THEN 1 ELSE 0)
NeverCalled(s, fn) == \A c \in s.atFire \cup s.atNext : c.fn # fn

\* kernels/types isLocalConnection
isLocalConnection(connection) == connection = "startUsingLocalKernelSpec"

\* Mutant of verifyRemoteKernelTracking_expectsTracking: tracking is expected
\* of every connection.
verifyRemoteKernelTracking_expectsTracking_Always(connection, source) ==
    source = "jupyterExtension"

\* verifyRemoteKernelTracking, `connection.kind === 'startUsingRemoteKernelSpec'
\* && source === 'jupyterExtension'`
verifyRemoteKernelTracking_expectsTracking(connection, source) ==
    connection = "startUsingRemoteKernelSpec" /\ source = "jupyterExtension"

\* verifyRemoteKernelTracking, the verifications after onDidStartKernel.fire
verifyRemoteKernelTracking_afterFire(s) ==
    /\ NeverCalled(s, "trackKernelIdAsUsed")
    /\ NeverCalled(s, "storePreferredRemoteKernelId")

\* verifyRemoteKernelTracking, the verifications after subject.next(kernelInfo)
verifyRemoteKernelTracking_afterNext(s) ==
    IF verifyRemoteKernelTracking_expectsTracking(s.connection, s.source)
    THEN /\ TimesCalled(s, "trackKernelIdAsUsed", "modelId1") = 1
         /\ TimesCalled(s, "storePreferredRemoteKernelId", "modelId1") = 1
    ELSE /\ NeverCalled(s, "trackKernelIdAsUsed")
         /\ NeverCalled(s, "storePreferredRemoteKernelId")

\* Mutant of verifySelection_live: the two branches exchanged.
verifySelection_live_Exchanged(s) ==
    IF s.selected THEN TimesCalled(s, "trackKernelIdAsNotUsed", "model1") = 1
    ELSE TimesCalled(s, "trackKernelIdAsUsed", "model1") = 1

\* verifyRemoteKernelTrackingUponKernelSelection, the branch of a live remote kernel
verifySelection_live(s) ==
    IF s.selected THEN TimesCalled(s, "trackKernelIdAsUsed", "model1") = 1
    ELSE TimesCalled(s, "trackKernelIdAsNotUsed", "model1") = 1

\* verifyRemoteKernelTrackingUponKernelSelection, the verifications after
\* onNotebookControllerSelectionChanged.fire
verifySelection_afterFire(s) ==
    /\ IF s.connection = "connectToLiveRemoteKernel"
       THEN verifySelection_live(s)
       ELSE NeverCalled(s, "trackKernelIdAsUsed")
    /\ (s.selected /\ isLocalConnection(s.connection))
       => TimesCalled(s, "clearPreferredRemoteKernelId", "none") = 1

\* a test calls verifyRemoteKernelTracking(connection, source) up to
\* remoteConnectionHandler.activate()
test_verifyRemoteKernelTracking(connection, source) ==
    /\ suite.pc = "setup"
    /\ suite' = [suite EXCEPT !.pc = "activated", !.helper = "verifyRemoteKernelTracking",
                              !.connection = connection, !.source = source]
    /\ UNCHANGED <<storageVars, providerVars, rawVars, jupyterVars, probe, removals, watcher>>

\* a test calls verifyRemoteKernelTrackingUponKernelSelection(connection,
\* selected) up to the first two verifications, which hold of mocks not yet called
test_verifySelection(connection, selected) ==
    /\ suite.pc = "setup"
    /\ suite' = [suite EXCEPT !.pc = "activated",
                              !.helper = "verifyRemoteKernelTrackingUponKernelSelection",
                              !.connection = connection, !.selected = selected]
    /\ UNCHANGED <<storageVars, providerVars, rawVars, jupyterVars, probe, removals, watcher>>

\* onDidStartKernel.fire(instance(kernel1)): the handler reacts, and the test
\* verifies
onDidStartKernel_fire(reaction) ==
    /\ suite.pc = "activated"
    /\ suite.helper = "verifyRemoteKernelTracking"
    /\ LET s == [suite EXCEPT !.atFire = reaction]
       IN  suite' = [s EXCEPT !.pc = IF verifyRemoteKernelTracking_afterFire(s)
                                     THEN "fired" ELSE "failed"]
    /\ UNCHANGED <<storageVars, providerVars, rawVars, jupyterVars, probe, removals, watcher>>

\* subject.next(kernelInfo): the handler reacts, and the test verifies
kernelSocket_next(reaction) ==
    /\ suite.pc = "fired"
    /\ LET s == [suite EXCEPT !.atNext = reaction]
       IN  suite' = [s EXCEPT !.pc = IF verifyRemoteKernelTracking_afterNext(s)
                                     THEN "passed" ELSE "failed"]
    /\ UNCHANGED <<storageVars, providerVars, rawVars, jupyterVars, probe, removals, watcher>>

\* onNotebookControllerSelectionChanged.fire({controller, notebook, selected}):
\* the handler reacts, and the test verifies
onNotebookControllerSelectionChanged_fire(reaction) ==
    /\ suite.pc = "activated"
    /\ suite.helper = "verifyRemoteKernelTrackingUponKernelSelection"
    /\ LET s == [suite EXCEPT !.atFire = reaction]
       IN  suite' = [s EXCEPT !.pc = IF verifySelection_afterFire(s)
                                     THEN "passed" ELSE "failed"]
    /\ UNCHANGED <<storageVars, providerVars, rawVars, jupyterVars, probe, removals, watcher>>

HandlerTestNext ==
    \/ \E t \in StartTests : test_verifyRemoteKernelTracking(t[1], t[2])
    \/ \E t \in SelectionTests : test_verifySelection(t[1], t[2])
    \/ \E reaction \in handlerReactions : onDidStartKernel_fire(reaction)
    \/ \E reaction \in handlerReactions : kernelSocket_next(reaction)
    \/ \E reaction \in handlerReactions : onNotebookControllerSelectionChanged_fire(reaction)

\* --------------------------------------------- RemoteKernelControllerWatcher
\* how often the registry announces a change of its providers, and a provider a
\* change of its handles
MaxProviderChanges == 1
MaxHandleChanges == 1
\* the runs the changes can start
MaxRuns == 1 + MaxProviderChanges + MaxHandleChanges * (1 + MaxProviderChanges)

\* the providers of the registry, in the order of getProviders(): one implements
\* getHandles and onDidChangeHandles, one neither
WatchedProviders == <<"provider", "plain">>
implementsGetHandles(p) == p = "provider"
implementsOnDidChangeHandles(p) == p = "provider"

\* the arrays of handles provider.getHandles() can resolve to at activation
Offers == {<<>>, <<4>>, <<4, 6>>, <<6, 7>>}
\* the handles of the watched provider that can be stored
WatchedHandleIds == {4, 5, 6, 7}
\* the storage calls of run r: (r, 0) is its getAll, (r, i) the i-th call of the
\* Promise.all it awaits
WatcherCalls == (1..MaxRuns) \X (0..Cardinality(WatchedHandleIds))

\* one change of the handles a provider offers: a handle more, or one less
ChangedHandles(handles) ==
    {Append(handles, n) : n \in {m \in WatchedHandleIds : \A k \in DOMAIN handles : handles[k] # m}}
        \cup {SelectSeq(handles, LAMBDA m : m # handles[k]) : k \in DOMAIN handles}

\* the storage file at activation, by the handles stored in it
WatcherStores == {<<>>, <<3, 4>>, <<1, 3, 4, 5>>}
WatcherFile(s) ==
    [i \in DOMAIN s |-> StorageMRUItem(Handle(s[i]), i, RegistryDisplayName(Handle(s[i])))]

NoWatcher ==
    [activated |-> FALSE, adding |-> 0, handledProviders |-> {},
     listeners |-> [i \in DOMAIN WatchedProviders |-> 0], offered |-> <<>>,
     providerChanges |-> 0, handleChanges |-> 0, runs |-> <<>>,
     controllers |-> {}, disposed |-> {}]

\* the storage a previous session left, the provider's handles, and a
\* controller for every stored server; the watcher is not activated yet
WatcherInit ==
    /\ \E s \in WatcherStores, old \in {0, 2} :
        /\ fileExists = (s # <<>>)
        /\ file = WatcherFile(s)
        /\ oldList = IF s = <<>> THEN OldList(old) ELSE <<>>
        /\ \E o \in Offers :
            watcher = [NoWatcher EXCEPT !.offered = o,
                                        !.controllers = {Handle(s[i]) : i \in DOMAIN s}]
    /\ mig = [pc |-> "none", items |-> <<>>]
    /\ migRuns = 0
    /\ calls = [c \in WatcherCalls |-> IdleCall]
    /\ started = 0
    /\ now = InitNow
    /\ removals = <<>>

Includes(array, x) == \E i \in DOMAIN array : array[i] = x

ActiveRuns(w) == {r \in DOMAIN w.runs : w.runs[r].pc # "done"}

\* a storage operation as its caller leaves it: at `await this.migration.migrateMRU()`
InvokedCall(op, h) ==
    [IdleCall EXCEPT !.op = op, !.h = h, !.pc = "migrate", !.result = "pending"]

\* onProviderHandlesChanged(provider) entered n times in a row, each run up to
\* `await Promise.all([provider.getHandles(), this.uriStorage.getAll()])`; a run
\* is alone while no other run is in flight
onProviderHandlesChanged(w, p, n, trigger) ==
    IF ~implementsGetHandles(p) \/ n = 0 THEN w
    ELSE [w EXCEPT !.runs =
            [r \in DOMAIN @ |-> [@[r] EXCEPT !.alone = @ /\ w.runs[r].pc = "done"]]
            \o [i \in 1..n |->
                  [provider |-> p, pc |-> "getAll", handles |-> w.offered,
                   trigger |-> trigger, alone |-> n = 1 /\ ActiveRuns(w) = {},
                   before |-> <<>>, map |-> {}, registered |-> <<>>, after |-> <<>>]]]

\* the getAll of every run that w starts beyond those of watcher
getAllInvoked(w) ==
    [c \in WatcherCalls |->
        IF c[2] = 0 /\ c[1] > Len(watcher.runs) /\ c[1] <= Len(w.runs)
        THEN InvokedCall("getAll", Handle(1))
        ELSE calls[c]]

\* the runs w starts are within the bounds
RunsFit(w) == Len(w.runs) <= MaxRuns

\* The registry and the providers announce a change while the watcher is at
\* rest, so the runs that overlap are those that one change starts.
AtRest == ActiveRuns(watcher) = {} /\ watcher.adding = 0

\* the steps that enter onProviderHandlesChanged: the watcher becomes w
EntersRuns(w) ==
    /\ RunsFit(w)
    /\ watcher' = w
    /\ calls' = getAllInvoked(w)
    /\ IF Len(w.runs) > Len(watcher.runs) THEN migrateMRU ELSE UNCHANGED <<mig, migRuns>>
    /\ UNCHANGED <<fileExists, file, oldList, started, now>>
    /\ UNCHANGED <<providerVars, rawVars, jupyterVars, probe, suite, removals>>

\* activate(): subscribes to onDidChangeProviders and calls addProviderHandlers,
\* which runs up to `await this.providerRegistry.getProviders()`
activate ==
    /\ ~watcher.activated
    /\ watcher' = [watcher EXCEPT !.activated = TRUE, !.adding = @ + 1]
    /\ UNCHANGED <<storageVars, providerVars, rawVars, jupyterVars, probe, suite, removals>>

\* the registry fires onDidChangeProviders: addProviderHandlers is called
onDidChangeProviders_fire ==
    /\ watcher.activated
    /\ AtRest
    /\ watcher.providerChanges < MaxProviderChanges
    /\ watcher' = [watcher EXCEPT !.providerChanges = @ + 1, !.adding = @ + 1]
    /\ UNCHANGED <<storageVars, providerVars, rawVars, jupyterVars, probe, suite, removals>>

\* addProviderHandlers, the body of `providers.forEach`, for the i-th provider
addProviderHandlers_forProvider(w, i) ==
    LET provider == WatchedProviders[i]
        ran == onProviderHandlesChanged(w, provider, 1, <<"addProviderHandlers", 0>>)
    IN  IF implementsOnDidChangeHandles(provider) /\ provider \notin w.handledProviders
        THEN [ran EXCEPT !.listeners[i] = @ + 1]
        ELSE ran

RECURSIVE addProviderHandlers_forEach(_, _)
addProviderHandlers_forEach(w, i) ==
    IF i > Len(WatchedProviders) THEN w
    ELSE addProviderHandlers_forEach(addProviderHandlers_forProvider(w, i), i + 1)

\* addProviderHandlers, `await this.providerRegistry.getProviders()` settles
addProviderHandlers_getProviders ==
    /\ watcher.adding > 0
    /\ EntersRuns(addProviderHandlers_forEach([watcher EXCEPT !.adding = @ - 1], 1))

\* the i-th provider offers other handles and fires onDidChangeHandles: every
\* listener the watcher subscribed runs onProviderHandlesChanged(provider)
onDidChangeHandles_fire(i, handles) ==
    /\ watcher.activated
    /\ AtRest
    /\ implementsOnDidChangeHandles(WatchedProviders[i])
    /\ watcher.handleChanges < MaxHandleChanges
    /\ LET w == [watcher EXCEPT !.offered = handles, !.handleChanges = @ + 1]
       IN  EntersRuns(onProviderHandlesChanged(w, WatchedProviders[i], w.listeners[i],
                                               <<"onDidChangeHandles", w.handleChanges>>))

\* onProviderHandlesChanged, what the callback of `uris.map` asks of the storage
\* for one item of the provider
storedItemCall(item, handles) ==
    IF ~Includes(handles, item.serverHandle.handle) THEN "remove"
    ELSE IF ~item.isValidated THEN "add"
    ELSE "none"

\* the storage calls of run r are all over
Settled(r) == \A c \in WatcherCalls : c[1] = r => calls[c].pc \in {"idle", "done"}

\* the storage calls a run awaits next, in the slots of run r
Awaited(r, todo) ==
    [c \in WatcherCalls |->
        IF c[1] # r THEN calls[c]
        ELSE IF c[2] \in DOMAIN todo THEN InvokedCall(todo[c[2]].op, todo[c[2]].h)
        ELSE IdleCall]

\* onProviderHandlesChanged, `await Promise.all([getHandles(), getAll()])`
\* settles: uris.map calls remove or add for the stored items of the provider
onProviderHandlesChanged_afterGetAll(r) ==
    /\ r \in DOMAIN watcher.runs
    /\ watcher.runs[r].pc = "getAll"
    /\ calls[<<r, 0>>].pc = "done"
    /\ LET run == watcher.runs[r]
           uris == calls[<<r, 0>>].ret
           mine == SelectSeq(uris, LAMBDA item : item.serverHandle.id = run.provider)
           need == SelectSeq(mine, LAMBDA item : storedItemCall(item, run.handles) # "none")
           todo == [k \in DOMAIN need |->
                       [op |-> storedItemCall(need[k], run.handles), h |-> need[k].serverHandle]]
           kept == SelectSeq(mine, LAMBDA item : Includes(run.handles, item.serverHandle.handle))
       IN  /\ watcher' = [watcher EXCEPT !.runs[r] =
                  [run EXCEPT !.pc = "stored", !.before = calls[<<r, 0>>].before,
                              !.map = {mine[k].serverHandle : k \in DOMAIN mine},
                              !.registered = [k \in DOMAIN kept |-> kept[k].serverHandle.handle]]]
           /\ calls' = Awaited(r, todo)
           /\ IF todo # <<>> THEN migrateMRU ELSE UNCHANGED <<mig, migRuns>>
    /\ UNCHANGED <<fileExists, file, oldList, started, now>>
    /\ UNCHANGED <<providerVars, rawVars, jupyterVars, probe, suite, removals>>

\* onProviderHandlesChanged, the first Promise.all settles:
\* `unregisteredHandles.map` calls add for every handle that was not stored
onProviderHandlesChanged_afterStored(r) ==
    /\ r \in DOMAIN watcher.runs
    /\ watcher.runs[r].pc = "stored"
    /\ Settled(r)
    /\ LET run == watcher.runs[r]
           unregisteredHandles == SelectSeq(run.handles, LAMBDA h : ~Includes(run.registered, h))
           todo == [k \in DOMAIN unregisteredHandles |->
                       [op |-> "add",
                        h |-> [extensionId |-> "ext", id |-> run.provider,
                               handle |-> unregisteredHandles[k]]]]
       IN  /\ watcher' = [watcher EXCEPT !.runs[r] = [run EXCEPT !.pc = "unregistered"]]
           /\ calls' = Awaited(r, todo)
           /\ IF todo # <<>> THEN migrateMRU ELSE UNCHANGED <<mig, migRuns>>
    /\ UNCHANGED <<fileExists, file, oldList, started, now>>
    /\ UNCHANGED <<providerVars, rawVars, jupyterVars, probe, suite, removals>>

\* onProviderHandlesChanged, the second Promise.all settles: the controllers of
\* the servers the provider no longer offers are disposed, and the run is over
onProviderHandlesChanged_afterUnregistered(r) ==
    /\ r \in DOMAIN watcher.runs
    /\ watcher.runs[r].pc = "unregistered"
    /\ Settled(r)
    /\ LET run == watcher.runs[r]
           gone == {h \in watcher.controllers :
                        h \in run.map /\ ~Includes(run.handles, h.handle)}
       IN  watcher' = [watcher EXCEPT !.disposed = @ \cup gone,
                                      !.runs[r] = [run EXCEPT !.pc = "done", !.after = file]]
    /\ calls' = Awaited(r, <<>>)
    /\ UNCHANGED <<fileExists, file, oldList, mig, migRuns, started, now>>
    /\ UNCHANGED <<providerVars, rawVars, jupyterVars, probe, suite, removals>>

WatcherNext ==
    \/ activate
    \/ onDidChangeProviders_fire
    \/ addProviderHandlers_getProviders
    \/ \E i \in DOMAIN WatchedProviders, handles \in ChangedHandles(watcher.offered) :
            onDidChangeHandles_fire(i, handles)
    \/ \E r \in 1..MaxRuns : onProviderHandlesChanged_afterGetAll(r)
    \/ \E r \in 1..MaxRuns : onProviderHandlesChanged_afterStored(r)
    \/ \E r \in 1..MaxRuns : onProviderHandlesChanged_afterUnregistered(r)
    \/ migrateMRUImpl_exists
    \/ migrateMRUImpl_getMRU
    \/ migrateMRUImpl_write
    \/ \E c \in WatcherCalls : add_getJupyterServerUri(c)
    \/ \E c \in WatcherCalls : add_getAll(c)
    \/ \E c \in WatcherCalls : read(c)
    \/ \E c \in WatcherCalls : updateStore_writeFile(c)
    \/ \E c \in WatcherCalls : fire(c)

\* ---------------------------------------------------------- specifications
\* the storage of a first run of the extension
FreshStorage ==
    /\ StorageInit
    /\ ~fileExists
    /\ oldList = <<>>

\* the provider as constructed, beside a fresh storage and a session not yet connected
ProviderSpecInit ==
    /\ ProviderInit
    /\ FreshStorage
    /\ RawInit
    /\ JupyterInit
    /\ watcher = NoWatcher

ProviderSpec == ProviderSpecInit /\ [][ProviderNext]_vars

Init ==
    /\ StorageInit
    /\ ProviderInit
    /\ RawInit
    /\ JupyterInit
    /\ watcher = NoWatcher

StorageSpec == Init /\ [][StorageNext]_vars

\* the storage with the listener of its removal events; the registry and the
\* providers answer every getProvider and removeHandle
RemovalSpec ==
    /\ Init
    /\ [][RemovalNext]_vars
    /\ \A r \in 1..MaxRemovals :
        /\ WF_vars(removeHandles_getProvider(r))
        /\ WF_vars(\E outcome \in {"resolves", "rejects"} : removeHandles_removeHandle(r, outcome))

\* the session as constructed, beside a fresh storage and an empty provider
RawSpecInit ==
    /\ RawInit
    /\ FreshStorage
    /\ ProviderInit
    /\ JupyterInit
    /\ watcher = NoWatcher

RawSpec == RawSpecInit /\ [][RawNext]_vars

\* the numbers of the sessions one connect() and the restart() calls can start
SessionIds == 1..(1 + Cardinality(RestartCalls))

\* raceTimeout(1000, ...) settles within a second whatever session.shutdown()
\* does, and a promise that has settled runs its finally handler
RawFairSpec ==
    /\ RawSpecInit
    /\ [][RawNext]_vars
    /\ \A s \in SessionIds :
        /\ WF_vars(\E outcome \in {"ok", "threw", "timeout"} : session_shutdown_settles(s, outcome))
        /\ WF_vars(exited_finally(s))

\* a kernel's session of any of the three classes
SessionSpec == RawSpecInit /\ [][SessionNext]_vars

\* the probe of one session start; the sleep of an attempt runs out, whatever
\* the kernel does
ProbeSpec ==
    /\ RawSpecInit
    /\ [][ProbeNext]_vars
    /\ WF_vars(\E d \in Delays : probe_wait(d))
    /\ WF_vars(probe_timer)

\* one test of the suite, with a handler that reacts in any way
HandlerTestSpec == RawSpecInit /\ [][HandlerTestNext]_vars

\* the watcher from its activation on, over the storage a previous session left
WatcherSpecInit ==
    /\ WatcherInit
    /\ ProviderInit
    /\ RawInit
    /\ JupyterInit

WatcherSpec == WatcherSpecInit /\ [][WatcherNext]_vars

\* ------------------------------------------------------------------ claims
\* The call in slot c is over, resolved, and no other call ran during it or was
\* invoked after it: the state is the one its caller sees when it resolves.
Quiet(c) ==
    /\ calls[c].pc = "done"
    /\ calls[c].result = "ok"
    /\ calls[c].alone
    /\ calls[c].no = started

HandleStored(list, h) ==
    jupyterServerHandleToString(h) \in HandlesOf(list)

RemovedByEvents(call) ==
    UNION { HandlesOf(call.fired[i].entries) :
                i \in {j \in DOMAIN call.fired : call.fired[j].type = "remove"} }

\* C1: the persisted MRU list, and so the result of getAll, never holds more
\* than MAX_MRU_COUNT entries, whatever was migrated and whatever was called.
C1_NeverMoreThanMaxMruCount ==
    /\ Len(file) <= MAX_MRU_COUNT
    /\ Len(getAll) <= MAX_MRU_COUNT

\* C2: when add(h) has resolved, a get(h) that follows it with nothing in between
\* returns an entry whose serverHandle is h.
C2_AddedHandleIsPersisted ==
    \A c \in Calls :
        (Quiet(c) /\ calls[c].op = "add") =>
            /\ Len(find(getAll, calls[c].h)) = 1
            /\ find(getAll, calls[c].h)[1].serverHandle = calls[c].h

\* C3: when an add makes the list longer than what is kept, the entries that stay
\* are the MAX_MRU_COUNT - 1 with the most recent time and the ones dropped are
\* the oldest.
C3_OldestEvictedFirst ==
    \A c \in Calls :
        (Quiet(c) /\ calls[c].op = "add" /\ Len(calls[c].items) > MAX_MRU_COUNT - 1) =>
            /\ Len(file) = MAX_MRU_COUNT - 1
            /\ \A kept \in Range(file) :
                  \A e \in Range(calls[c].items) :
                      ~HandleStored(file, e.serverHandle) => e.time <= kept.time

\* C4: every entry persisted before an add/update and no longer persisted after
\* it was named by an onDidRemove event of that call.
C4_EvictionsAreReported ==
    \A c \in Calls :
        (Quiet(c) /\ calls[c].op \in {"add", "update"}) =>
            \A e \in Range(calls[c].before) :
                ~HandleStored(file, e.serverHandle) =>
                    jupyterServerHandleToString(e.serverHandle) \in RemovedByEvents(calls[c])

UniqueHandles(list) ==
    \A i, j \in DOMAIN list :
        jupyterServerHandleToString(list[i].serverHandle)
            = jupyterServerHandleToString(list[j].serverHandle) => i = j

\* C5: the persisted list holds at most one entry per server-handle identity, and
\* an add of a handle already stored replaces its entry by one with the new time.
C5_OneEntryPerHandle ==
    /\ UniqueHandles(file)
    /\ \A c \in Calls :
        (Quiet(c) /\ calls[c].op = "add" /\ HandleStored(calls[c].before, calls[c].h)) =>
            /\ Len(find(file, calls[c].h)) = 1
            /\ find(file, calls[c].h)[1].time = calls[c].time

\* C6: migrateMRUImpl is entered at most once, however many operations are invoked
\* and however they overlap, and no operation has read or written the storage
\* file while the migration was not finished.
C6_MigrationRunsOnce ==
    /\ migRuns <= 1
    /\ \A c \in Calls :
        /\ calls[c].readAfterMigration
        /\ calls[c].pc \in {"getAll", "write", "fire"} => mig.pc = "done"
        /\ (calls[c].pc = "done" /\ calls[c].result = "ok") => mig.pc = "done"

\* C6 witness: two operations wait on the one migration in flight.
C6_Witness ==
    /\ migRuns = 1
    /\ mig.pc = "write"
    /\ \A c \in Calls : calls[c].pc = "migrate"

\* The two calls ran at the same time and nothing was invoked since.
Overlapped(c, d) ==
    /\ c # d
    /\ calls[c].pc = "done" /\ calls[c].result = "ok"
    /\ calls[d].pc = "done" /\ calls[d].result = "ok"
    /\ calls[c].no + 1 = calls[d].no
    /\ calls[d].no = started
    /\ ~calls[d].alone

\* C7: two overlapping adds of distinct handles are both persisted when both have
\* resolved (the capacity not being exceeded), and an add overlapping a remove of
\* another handle loses neither effect.
C7_OverlappingCallsAreSerialized ==
    \A c, d \in Calls :
        Overlapped(c, d) =>
            /\ (/\ calls[c].op = "add" /\ calls[d].op = "add"
                /\ calls[c].h # calls[d].h
                /\ Len(calls[c].before) + 2 <= MAX_MRU_COUNT - 1
                /\ Len(calls[d].before) + 2 <= MAX_MRU_COUNT - 1)
               => (HandleStored(file, calls[c].h) /\ HandleStored(file, calls[d].h))
            /\ (/\ {calls[c].op, calls[d].op} = {"add", "remove"}
                /\ calls[c].h # calls[d].h
                /\ Len(calls[c].before) + 1 <= MAX_MRU_COUNT - 1
                /\ Len(calls[d].before) + 1 <= MAX_MRU_COUNT - 1)
               => \A x \in {c, d} :
                     HandleStored(file, calls[x].h) <=> calls[x].op = "add"

NewestFirst(list) ==
    \A i, j \in DOMAIN list : list[i].time > list[j].time => i < j

\* C8: the list is newest-first: an entry with a later time comes before every
\* entry with an earlier time.  Stated of the lists whose every entry was added
\* in the behaviour (no entry with a time before InitNow).
C8_NewestFirst ==
    (\A e \in Range(getAll) : e.time >= InitNow) => NewestFirst(getAll)

\* C9: a successful add(h) fires onDidChange and then onDidAdd, the latter with an
\* entry for h that has isValidated = true, both after the list was written; what
\* getAll reads at that moment is the written list.
C9_AddEventsFollowTheWrite ==
    \A c \in Calls :
        calls[c].op = "add" =>
            /\ calls[c].fired # <<>> => calls[c].wrote
            /\ (calls[c].pc = "done" /\ calls[c].result = "ok") =>
                LET f == calls[c].fired
                    n == Len(f)
                IN  /\ n >= 2
                    /\ f[n - 1].type = "change"
                    /\ f[n].type = "add"
                    /\ Len(f[n].entries) = 1
                    /\ f[n].entries[1].serverHandle = calls[c].h
                    /\ f[n].entries[1].isValidated = TRUE
                    /\ \A i \in 1..(n - 2) : f[i].type \notin {"change", "add"}
            /\ Quiet(c) => AsStorageItems(getAll) = itemsToSave(calls[c].items)

\* C9 witness: an add resolved with its handle stored and its events fired.
C9_Witness ==
    \E c \in Calls :
        /\ Quiet(c) /\ calls[c].op = "add"
        /\ Len(calls[c].fired) = 3
        /\ HandleStored(file, calls[c].h)

\* C10: getOrCreate is idempotent for an unchanged connection: when the provider
\* holds a kernel for the key with the requested metadata id, getOrCreate returns
\* that kernel, constructs none, disposes none and leaves the map as it is.
C10_GetOrCreateReturnsCachedKernel ==
    [][ \A k \in Keys, m \in MetadataIds :
          (/\ getOrCreate(k, m)
           /\ kernels[k].kernel # 0
           /\ kernels[k].metadataId = m)
          => (/\ ret'.kernel = kernels[k].kernel
              /\ kernels' = kernels
              /\ kernelObjs' = kernelObjs) ]_vars

\* C10 witness: getOrCreate found the kernel of its key in the map and returned it.
C10_Witness ==
    /\ ret.existing
    /\ \E k \in Keys : kernels[k].kernel = ret.kernel
    /\ kernelObjs[ret.kernel].status = "alive"

\* the kernels of a notebook/URI that have not been disposed
AliveKernels(k) ==
    {n \in DOMAIN kernelObjs : kernelObjs[n].key = k /\ kernelObjs[n].status = "alive"}

\* C11: the provider holds at most one kernel per notebook/URI: no key has two
\* kernels alive, a kernel that is alive is the one stored for its key, and
\* every getOrCreate that replaces a stored kernel has disposed that kernel
\* when the new one is stored, so that the stored kernel is never one that
\* the provider disposed.
C11_AtMostOneKernelPerKey ==
    /\ [](\A k \in Keys :
            /\ Cardinality(AliveKernels(k)) <= 1
            /\ \A n \in AliveKernels(k) : kernels[k].kernel = n)
    /\ [][ \A k \in Keys :
              (kernels[k].kernel # 0 /\ kernels'[k].kernel \notin {0, kernels[k].kernel})
              => (/\ kernelObjs'[kernels[k].kernel].status # "alive"
                  /\ kernelObjs'[kernels'[k].kernel].status = "alive"
                  /\ kernels'[k].kernel \notin DOMAIN kernelObjs) ]_vars

\* a stored kernel was replaced by getOrCreate: the old one is being disposed
\* and the new one is stored and alive
C11_Witness ==
    \E k \in Keys : \E n \in DOMAIN kernelObjs :
        /\ kernelObjs[n].key = k
        /\ kernelObjs[n].status = "disposing"
        /\ kernels[k].kernel \notin {0, n}
        /\ kernelObjs[kernels[k].kernel].status = "alive"

\* C12: when onDisposed of the kernel stored for a key fires, the entry of the
\* key is removed, and a getOrCreate never returns a kernel whose onDisposed
\* has fired: with no entry it constructs a fresh kernel.
C12_DisposedKernelLeavesTheMap ==
    [][ /\ \A n \in DOMAIN kernelObjs :
              (/\ kernelObjs[n].status = "disposing"
               /\ kernelObjs'[n].status = "disposed"
               /\ kernels[kernelObjs[n].key].kernel = n)
              => kernels'[kernelObjs[n].key] = NoKernel
        /\ ret' # ret
              => (/\ kernelObjs'[ret'.kernel].status # "disposed"
                  /\ (\A n \in DOMAIN kernelObjs :
                          kernelObjs[n].key = kernelObjs'[ret'.kernel].key
                          => kernelObjs[n].status = "disposed")
                      => ~ret'.existing) ]_vars

\* a kernel disposed itself, its entry was removed, and the next getOrCreate
\* for its key constructed a fresh kernel
C12_Witness ==
    /\ ~ret.existing
    /\ ret.kernel # 0
    /\ kernels[kernelObjs[ret.kernel].key].kernel = ret.kernel
    /\ \E n \in DOMAIN kernelObjs :
          /\ n < ret.kernel
          /\ kernelObjs[n].key = kernelObjs[ret.kernel].key
          /\ kernelObjs[n].status = "disposed"
    /\ \A n \in DOMAIN kernelObjs :
          n # ret.kernel /\ kernelObjs[n].key = kernelObjs[ret.kernel].key
          => kernelObjs[n].status = "disposed"

\* the restart sessions in preparation: started by restart(), not yet started or failed
RestartSessionsInPreparation ==
    {s \in DOMAIN rawSessions :
        /\ rawSessions[s].purpose = "restart"
        /\ rawSessions[s].st \notin {"started", "failed"}}

\* the sessions wired as the current one: this.statusHandler is connected to them
SessionsWiredAsCurrent ==
    {s \in DOMAIN rawSessions : rawSessions[s].statusChanged}

\* C13: at every moment at most one session is wired as the current session
\* and at most one restart session is in preparation.
C13_OneCurrentOneRestartSession ==
    /\ Cardinality(SessionsWiredAsCurrent) <= 1
    /\ SessionsWiredAsCurrent \subseteq {this.session}
    /\ Cardinality(RestartSessionsInPreparation) <= 1

\* every call of connect(), restart(), shutdown() and dispose() has settled, and
\* so has everything they started and did not await
AllSettled ==
    /\ connectCall.pc # "starting"
    /\ \A c \in RestartCalls : restartCalls[c].pc # "starting"
    /\ \A c \in ShutdownCalls : shutdownCalls[c].pc \in {"idle", "done"}
    /\ \A s \in DOMAIN rawSessions :
        /\ rawSessions[s].st \in {"started", "failed"}
        /\ rawSessions[s].shutdown # "pending"
        /\ rawSessions[s].exit # "terminating"

\* C14: once a restart() and the calls of shutdown()/dispose() on a connected
\* session have settled, there is no current session and no kernel process
\* launched by this object is still running.  (One call of restart() is
\* enough: restart() calls that overlap each other are the matter of C13.)
C14_ShutdownLeavesNoKernelProcess ==
    (/\ AllSettled
     /\ connectCall.result = "ok"
     /\ restartCalls["r1"].pc = "done"
     /\ restartCalls["r2"].pc = "idle"
     /\ \E c \in ShutdownCalls : shutdownCalls[c].pc = "done")
    => (/\ this.session = 0
        /\ \A s \in DOMAIN rawSessions : rawSessions[s].proc # "running")

\* C15 as stated: while a restart() that is about to succeed awaits its
\* replacement session, there is a current session and the shutdown of the
\* session that was current when restart() was called has not begun.
C15_ReplacementStartedBeforeOldShutdown ==
    \A c \in RestartCalls :
        (/\ restartCalls[c].pc = "starting"
         /\ rawSessions[restartCalls[c].newSession].st = "started")
        => (/\ this.session # 0
            /\ restartCalls[c].oldSession # 0
            /\ rawSessions[restartCalls[c].oldSession].shutdown = "none")

\* C15, amended: restart() installs a replacement session only when it is
\* completely started; it requests the shutdown of the old session in the step
\* that makes the replacement the current session, the status handler of the
\* old session disconnected; and no step of restart() leaves the object
\* without a current session if it had one.
C15_RestartSwapsThenShutsDown ==
    [][ \A c \in RestartCalls :
          /\ (restartCalls[c].pc = "starting" /\ restartCalls'[c].result = "ok")
             => (/\ rawSessions[restartCalls[c].newSession].st = "started"
                 /\ this'.session = restartCalls[c].newSession
                 /\ rawSessions'[this'.session].statusChanged
                 /\ restartCalls[c].oldSession # 0
                    => (/\ ~rawSessions'[restartCalls[c].oldSession].statusChanged
                        /\ ~rawSessions'[restartCalls[c].oldSession].exitHandler
                        /\ rawSessions'[restartCalls[c].oldSession].shutdown # "none"))
          /\ (restartCalls'[c] # restartCalls[c] /\ this.session # 0)
             => this'.session # 0 ]_vars

\* a restart() has succeeded: the replacement is the current session and the
\* shutdown of the old session is under way
C15_Witness ==
    \E c \in RestartCalls :
        /\ restartCalls[c].result = "ok"
        /\ this.session = restartCalls[c].newSession
        /\ restartCalls[c].oldSession # 0
        /\ rawSessions[restartCalls[c].oldSession].shutdown = "pending"
        /\ rawSessions[restartCalls[c].oldSession].proc = "running"

NoStartNoShutdown ==
    /\ Len(rawSessions') = Len(rawSessions)
    /\ this'.session = this.session
    /\ this'.isDisposed = this.isDisposed
    /\ \A t \in DOMAIN rawSessions : rawSessions'[t].exit = rawSessions[t].exit

C17_RejectedConnectLeavesNothing ==
    connectCall.result = "rejected"
    => /\ this.session = 0
       /\ rawSessions[connectCall.newSession].proc # "running"

\* C18: a cancellation during the start of a Jupyter session (while waiting for
\* a live remote kernel to connect, while creating the session, or while
\* waiting for idle) reaches the caller of createNewKernelSession as the
\* cancellation error itself, never wrapped into JupyterInvalidKernelError.
C18_CancellationPropagatedAsIs ==
    (createCall.result = "threw" /\ createCall.caught.class = "CancellationError")
    => /\ createCall.thrown = createCall.caught
       /\ createCall.thrown.class # "JupyterInvalidKernelError"

\* C19: when the start of a Jupyter session fails with an error that is not a
\* cancellation, createNewKernelSession throws the very error object if it is
\* an instance of BaseError, and a JupyterInvalidKernelError built from the
\* kernel connection metadata otherwise; it returns a session only if nothing
\* was thrown.
C19_KnownErrorsUnchangedOthersWrapped ==
    /\ (createCall.caught # NoError /\ createCall.caught.class # "CancellationError")
       => /\ createCall.result = "threw"
          /\ createCall.caught.class \in {"BaseError", "JupyterSessionStartError"}
             => createCall.thrown = createCall.caught
          /\ createCall.caught.class = "Error"
             => createCall.thrown =
                    [class |-> "JupyterInvalidKernelError", site |-> "createNewKernelSession",
                     metadata |-> createCall.metadata]
    /\ createCall.result = "session"
       => (createCall.caught = NoError /\ createCall.thrown = NoError /\ createCall.newSession)
    /\ createCall.result = "threw" => createCall.caught # NoError

\* the session manager failed to start the session twice, and the typed error
\* of the second attempt was rethrown as it was
C19_Witness ==
    /\ createCall.result = "threw"
    /\ createCall.caught = JupyterSessionStartError
    /\ createCall.thrown = JupyterSessionStartError
    /\ ~createCall.cancelled

\* the session a finished call of RawJupyterSession.shutdown()/dispose() was
\* called on is disposed, and its kernel process too
RawShutdownDisposed(c) ==
    /\ shutdownCalls[c].result = "ok"
    /\ shutdownCalls[c].session # 0
       => /\ rawSessions[shutdownCalls[c].session].isDisposed
          /\ rawSessions[shutdownCalls[c].session].proc = "disposed"
          /\ rawSessions[shutdownCalls[c].session].shutdown = "done"

\* the session of the wrapper is disposed, by force if the protocol-level
\* shutdown threw or did not answer in time
WrapperShutdownDisposed(c) ==
    /\ wrapperCalls[c].result = "ok"
    /\ wrapper.session.isDisposed
    /\ wrapper.session.outcome \in {"threw", "timeout"} => wrapper.session.forced

\* C20: shutdown() and dispose() of a session (JupyterSessionWrapper,
\* RawJupyterSession) never reject, and when they resolve the underlying
\* session is disposed, whether the protocol-level shutdown succeeded, threw or
\* did not answer within the second; in the last two cases by force.
C20_ShutdownAlwaysDisposes ==
    /\ \A c \in ShutdownCalls : shutdownCalls[c].pc = "done" => RawShutdownDisposed(c)
    /\ \A c \in WrapperCalls : wrapperCalls[c].pc = "done" => WrapperShutdownDisposed(c)

\* C20, amended: the same of every call of RawJupyterSession.shutdown()/dispose()
\* and of the call of JupyterSessionWrapper.shutdown()/dispose() that finds the
\* wrapper not yet disposed; a call that finds the wrapper disposed resolves at
\* once without rejecting, whether the teardown has ended or not.
C20_TeardownCallAlwaysDisposes ==
    /\ \A c \in ShutdownCalls : shutdownCalls[c].pc = "done" => RawShutdownDisposed(c)
    /\ \A c \in WrapperCalls :
        wrapperCalls[c].pc = "done"
        => IF wrapperCalls[c].early
           THEN wrapperCalls[c].result = "ok"
           ELSE WrapperShutdownDisposed(c)

\* the protocol-level shutdown of the wrapper's session did not answer within
\* the second, and the call that tore the wrapper down has resolved
C20_Witness ==
    \E c \in WrapperCalls :
        /\ wrapperCalls[c].pc = "done" /\ ~wrapperCalls[c].early
        /\ wrapperCalls[c].result = "ok"
        /\ wrapper.session.outcome = "timeout"
        /\ wrapper.session.forced /\ wrapper.session.isDisposed

\* C21: the kernel-info probe sends at most 2 kernel-info requests per session
\* start; a further request is sent only when the timer of an attempt ran out
\* with no iopub message received during it; no attempt lasts longer than
\* min(launchTimeout, 1500 ms); and the probe always ends, by leaving the loop
\* or by throwing.
C21_ProbeBoundedAndTerminates ==
    /\ [](/\ probe.requests <= 2
          /\ probe.pc = "waiting"
             => (/\ probe.elapsed <= 1500
                 /\ probe.elapsed <= probe.launchTimeout))
    /\ [][ /\ probe'.requests # probe.requests
              => (/\ probe'.requests = probe.requests + 1
                  /\ probe.pc = "waiting" => (/\ ~probe.gotIoPubMessage
                                              /\ probe.requests = 1
                                              /\ probe.elapsed \in {1500, probe.launchTimeout}))
           /\ (probe.pc = "waiting" /\ probe'.gotIoPubMessage /\ probe'.reply)
              => probe'.pc = "done"
           /\ (probe.pc = "waiting" /\ probe.gotIoPubMessage /\ probe'.pc # "waiting")
              => probe'.requests = probe.requests ]_vars
    /\ (probe.pc = "waiting") ~> (probe.pc \in {"done", "threw"})

\* the first attempt ran out with no iopub message, the second was answered
\* with one, and the loop was left
C21_Witness ==
    /\ probe.pc = "done"
    /\ probe.requests = 2
    /\ probe.attempts = 2
    /\ probe.gotIoPubMessage /\ probe.reply

\* C22: a restart() that succeeds emits, in the step that installs the new
\* session, exactly one value on kernelSocket, and the value carries the kernel
\* id and the socket of the new session, which is neither the session that was
\* current when restart() was called nor the one current just before the step.
C22_RestartEmitsOneNewKernelSocket ==
    [][ \A c \in RestartCalls :
          (restartCalls[c].pc = "starting" /\ restartCalls'[c].result = "ok")
          => (/\ Len(this'.kernelSocket) = Len(this.kernelSocket) + 1
              /\ SubSeq(this'.kernelSocket, 1, Len(this.kernelSocket)) = this.kernelSocket
              /\ this'.kernelSocket[Len(this'.kernelSocket)] = restartCalls[c].newSession
              /\ restartCalls[c].newSession \notin {restartCalls[c].oldSession, this.session}) ]_vars

\* a session was connected and then restarted: two values were emitted, the
\* second one that of the restart session
C22_Witness ==
    /\ restartCalls["r1"].result = "ok"
    /\ this.kernelSocket = <<1, 2>>
    /\ this.session = 2

C25_RemoveKeepsTheOtherEntries ==
    \A c \in Calls :
        (Quiet(c) /\ calls[c].op = "remove" /\ HandleStored(calls[c].before, calls[c].h)) =>
            LET f == calls[c].fired
                n == Len(f)
            IN  /\ calls[c].wrote
                /\ ~HandleStored(file, calls[c].h)
                /\ file = SelectSeq(calls[c].before, LAMBDA e :
                        jupyterServerHandleToString(e.serverHandle)
                            # jupyterServerHandleToString(calls[c].h))
                /\ n >= 2
                /\ f[n - 1].type = "remove"
                /\ HandlesOf(f[n - 1].entries) = {jupyterServerHandleToString(calls[c].h)}
                /\ Len(f[n - 1].entries) = 1
                /\ f[n].type = "change"
                /\ \A i \in 1..(n - 2) : f[i].type = "remove" /\ f[i].entries = <<>>
                /\ SelectSeq(getAll, LAMBDA e :
                        jupyterServerHandleToString(e.serverHandle)
                            = jupyterServerHandleToString(calls[c].h)) = <<>>

\* C26: a remove(h) that found no entry of h in the list it read wrote nothing
\* and fired no event; when it resolves (no other call running) the file is the
\* one it read.
C26_RemoveOfUnknownHandleChangesNothing ==
    \A c \in Calls :
        (/\ calls[c].op = "remove"
         /\ calls[c].pc = "done"
         /\ ~HandleStored(calls[c].uriList, calls[c].h)) =>
            /\ calls[c].result = "ok"
            /\ ~calls[c].wrote
            /\ calls[c].fired = <<>>
            /\ Quiet(c) => file = calls[c].before

\* C26 witness: remove of a handle that a list of nine entries does not hold.
C26_Witness ==
    \E c \in Calls :
        /\ Quiet(c) /\ calls[c].op = "remove"
        /\ Len(calls[c].before) = MAX_MRU_COUNT - 1
        /\ ~HandleStored(calls[c].before, calls[c].h)
        /\ file = calls[c].before

\* C27: a clear() that has resolved wrote the empty list and then fired an
\* onDidRemove event carrying every entry of the list it read, each handle once
\* with its time, and after it onDidChange as the last event; when it resolves
\* (no other call running) the persisted list is empty and the entries reported
\* are those stored before the call.
C27_ClearReportsEveryStoredEntry ==
    \A c \in Calls :
        (calls[c].op = "clear" /\ calls[c].pc = "done") =>
            LET f == calls[c].fired
                n == Len(f)
            IN  /\ calls[c].result = "ok"
                /\ calls[c].wrote
                /\ n >= 2
                /\ f[n].type = "change"
                /\ f[n - 1].type = "remove"
                /\ Len(f[n - 1].entries) = Len(calls[c].before)
                /\ \A i \in DOMAIN calls[c].before :
                      /\ f[n - 1].entries[i].serverHandle = calls[c].before[i].serverHandle
                      /\ f[n - 1].entries[i].time = calls[c].before[i].time
                /\ Quiet(c) => (fileExists /\ file = <<>> /\ getAll = <<>>)

\* C27 witness: clear() of a migrated list of more than MAX_MRU_COUNT entries.
C27_Witness ==
    \E c \in Calls :
        /\ Quiet(c) /\ calls[c].op = "clear"
        /\ Len(calls[c].before) = MAX_MRU_COUNT + 1
        /\ file = <<>>
        /\ Len(calls[c].fired[2].entries) = MAX_MRU_COUNT + 1

\* C28: an add(h) (alone or inside update) of a handle the provider registry
\* cannot resolve ends rejected, having written nothing and fired no event, and
\* the step at which it rejects leaves the storage file as it is.
C28_RejectedAddLeavesNothing ==
    /\ [](\A c \in Calls :
            (/\ calls[c].op \in {"add", "update"}
             /\ calls[c].h.handle \in StaleHandleIds
             /\ calls[c].pc = "done") =>
                /\ calls[c].result = "rejected"
                /\ ~calls[c].wrote
                /\ calls[c].fired = <<>>)
    /\ [][\A c \in Calls :
            (calls[c].result # "rejected" /\ calls'[c].result = "rejected") =>
                (file' = file /\ fileExists' = fileExists)]_vars

\* C28 witness: an add rejected beside a stored list, which is still there.
C28_Witness ==
    \E c \in Calls :
        /\ calls[c].op = "add" /\ calls[c].result = "rejected"
        /\ calls[c].alone /\ calls[c].no = started
        /\ Len(file) = MAX_MRU_COUNT - 1

C30_MigrationWritesOnlyAMissingFile ==
    [][(mig.pc # "none" /\ mig'.pc # mig.pc) =>
        LET kept == SelectSeq(oldList, LAMBDA e : e.kind \notin {"local", "unparsable"})
            unchanged == file' = file /\ fileExists' = fileExists /\ oldList' = oldList
        IN  /\ fileExists => (unchanged /\ mig'.pc = "done")
            /\ (~fileExists /\ kept = <<>>) => unchanged
            /\ (~fileExists /\ kept # <<>> /\ mig'.pc # "done") => unchanged
            /\ (~fileExists /\ kept # <<>> /\ mig'.pc = "done") =>
                  /\ fileExists'
                  /\ file' = [i \in DOMAIN kept |->
                                [displayName |-> kept[i].displayName, time |-> kept[i].time,
                                 serverHandle |-> kept[i].serverHandle]]
                  /\ oldList' = <<>>]_vars

\* C30 witness: an old list of two URIs, the 'local' marker and an unparsable
\* URI was migrated into a file of two entries.
C30_Witness ==
    /\ mig.pc = "done"
    /\ migRuns = 1
    /\ started = 1
    /\ \A c \in Calls : calls[c].pc = "migrate" \/ calls[c].pc = "idle"
    /\ fileExists
    /\ Len(file) = 2
    /\ \A i \in DOMAIN file : file[i].displayName = "old" /\ file[i].serverHandle = Handle(i)
    /\ oldList = <<>>

\* C31: the call of dispose() that tears a JupyterSessionWrapper down sends no
\* protocol-level shutdown, and only disposes the session connection, when the
\* connection is of kind connectToLiveRemoteKernel or is a remote kernel spec
\* used by a notebook; it sends the shutdown for the other connections of an
\* interactive window and for local connections; the call of shutdown() that
\* tears the wrapper down sends it for every connection.
C31_DisposeSparesKernelsItDoesNotOwn ==
    \A c \in WrapperCalls :
        (wrapperCalls[c].pc # "idle" /\ ~wrapperCalls[c].early) =>
            LET notOwned ==
                    \/ wrapper.kind = "connectToLiveRemoteKernel"
                    \/ /\ wrapper.kind = "startUsingRemoteKernelSpec"
                       /\ wrapper.resourceType = "notebook"
                sent == wrapper.session.shutdown # "none"
            IN  /\ wrapperCalls[c].shutdownEvenIfRemote => sent
                /\ (~wrapperCalls[c].shutdownEvenIfRemote /\ notOwned) =>
                        /\ ~sent
                        /\ wrapperCalls[c].pc = "done"
                        /\ wrapper.session.isDisposed
                /\ (~wrapperCalls[c].shutdownEvenIfRemote /\ ~notOwned) => sent

\* C31 witness: dispose() of the wrapper of a live remote kernel in an
\* interactive window has resolved.
C31_Witness ==
    \E c \in WrapperCalls :
        /\ wrapperCalls[c].pc = "done" /\ ~wrapperCalls[c].early
        /\ ~wrapperCalls[c].shutdownEvenIfRemote
        /\ wrapper.kind = "connectToLiveRemoteKernel"
        /\ wrapper.resourceType = "interactive"
        /\ wrapper.session.shutdown = "none"
        /\ wrapper.session.isDisposed

\* C32: when the kernel process of a session exits after the shutdown of that
\* session was requested by shutdown(), dispose() or restart(), or while the
\* session is not the current one, no status event is fired, and the current
\* session, terminatingStatus and the status stay as they are; only a session
\* whose exit was handled as a crash ever has status events of its own.
C32_IntentionalTeardownReportsNoCrash ==
    /\ [](\A s \in DOMAIN rawSessions :
            rawSessions[s].exit = "none" => rawSessions[s].fired = <<>>)
    /\ [][\A s \in DOMAIN rawSessions :
            (/\ rawSessions[s].proc = "running"
             /\ rawSessions'[s].proc = "exited"
             /\ rawSessions[s].shutdown # "none" \/ this.session # s) =>
                /\ this' = this
                /\ status' = status
                /\ \A t \in DOMAIN rawSessions :
                      /\ rawSessions'[t].fired = rawSessions[t].fired
                      /\ rawSessions'[t].exit = rawSessions[t].exit]_vars

\* C32 witness: the process of the session replaced by a restart has exited
\* during its shutdown; no event was fired and the new session is current.
C32_Witness ==
    \E c \in RestartCalls :
        /\ restartCalls[c].result = "ok"
        /\ restartCalls[c].oldSession # 0
        /\ rawSessions[restartCalls[c].oldSession].proc = "exited"
        /\ rawSessions[restartCalls[c].oldSession].fired = <<>>
        /\ this.session = restartCalls[c].newSession
        /\ this.terminatingStatus = "none"

\* the handles of the entries of list that belong to other providers than p
EntriesOfOthers(list, p) ==
    {jupyterServerHandleToString(list[i].serverHandle) :
        i \in {j \in DOMAIN list : list[j].serverHandle.id # p}}

\* C33: when a run of onProviderHandlesChanged(provider) is over, and no other
\* run was in flight during it, every stored entry of the provider has a handle
\* the provider offers, every handle the provider offers is stored, and the
\* entries of the other providers are the ones that were stored before.
C33_RunLeavesTheOfferedHandlesStored ==
    \A r \in DOMAIN watcher.runs :
        LET run == watcher.runs[r]
        IN  (run.pc = "done" /\ run.alone) =>
                /\ \A i \in DOMAIN run.after :
                        run.after[i].serverHandle.id = run.provider =>
                            Includes(run.handles, run.after[i].serverHandle.handle)
                /\ \A k \in DOMAIN run.handles :
                        <<"ext", run.provider, run.handles[k]>> \in HandlesOf(run.after)
                /\ EntriesOfOthers(run.after, run.provider)
                        = EntriesOfOthers(run.before, run.provider)

\* The session that was current when restart call c was made has since been
\* replaced by another restart(), shut down by shutdown()/dispose(), or lost
\* its kernel process.
OtherOperationSince(c) ==
    \/ \E d \in ShutdownCalls : shutdownCalls[d].pc # "idle"
    \/ \E d \in RestartCalls \ {c} : restartCalls[d].result = "ok"
    \/ /\ restartCalls[c].oldSession # 0
       /\ rawSessions[restartCalls[c].oldSession].proc # "running"

C35_TeardownFiresItsEventsOnce ==
    /\ \A c \in ShutdownCalls :
            shutdownCalls[c].pc = "done" =>
                this.delivered = <<"dead", "onDidDispose", "onDidShutdown">>
    /\ Len(this.delivered) <= 3
    /\ (\E c \in ShutdownCalls : shutdownCalls[c].pc # "idle") => status = "dead"

\* C36: over every sequence and overlap of dispose() and shutdown() calls on one
\* JupyterSessionWrapper, the wrapped session is asked to shut down at most
\* once and the teardown body is entered exactly once; a call that finds the
\* wrapper disposed returns at once and changes nothing; and status reads 'dead'
\* from the first call on.
C36_WrapperTeardownIsIdempotent ==
    /\ [](/\ wrapper.session.requests <= 1
          /\ wrapper.teardowns <= 1
          /\ (\E c \in WrapperCalls : wrapperCalls[c].pc # "idle") =>
                /\ wrapper.teardowns = 1
                /\ wrapper_status(wrapper) = "dead")
    /\ [][\A c \in WrapperCalls :
            (wrapperCalls[c].pc = "idle" /\ wrapperCalls'[c].pc # "idle" /\ wrapper.isDisposed) =>
                /\ wrapper' = wrapper
                /\ wrapperCalls'[c].pc = "done"
                /\ wrapperCalls'[c].result = "ok"]_vars

\* shutdown() was called while the shutdown requested by an earlier call was
\* still awaited, and both calls have resolved: one request reached the session.
C36_Witness ==
    /\ \A c \in WrapperCalls : wrapperCalls[c].pc = "done"
    /\ \E c \in WrapperCalls : wrapperCalls[c].early /\ wrapperCalls[c].shutdownEvenIfRemote
    /\ wrapper.session.requests = 1
    /\ wrapper.teardowns = 1
    /\ wrapper.baseDisposed

C38_OneListenerPerProvider ==
    /\ \A i \in DOMAIN WatchedProviders : watcher.listeners[i] <= 1
    /\ \A change \in 1..watcher.handleChanges :
            Cardinality({r \in DOMAIN watcher.runs :
                            watcher.runs[r].trigger = <<"onDidChangeHandles", change>>}) = 1
====
